---- MODULE Spec2Model ----
(***************************************************************************)
(* A model of the EssentiaServer decision core: the calibration layer      *)
(* (backend/analysis/calibration.py), the hook chain                       *)
(* (backend/analysis/pipeline.py), the process-pool / inline router        *)
(* (backend/server/processing.py) and the chunk consensus aggregator       *)
(* (backend/analysis/pipeline_chunks.py).                                  *)
(*                                                                         *)
(* Units.  Python floats are modelled by exact integers:                   *)
(*   - a BPM value is held in ticks, four ticks to one BPM (Bpm(x));       *)
(*   - energy, confidences and probabilities are held in percent;          *)
(*   - durations and clock values are whole seconds;                       *)
(*   - a scaler slope is held in quarters, a BPM rule factor in halves.    *)
(* The inputs are drawn so that every product the code forms is exact in   *)
(* these units (raw BPMs are multiples of 4 BPM).                          *)
(***************************************************************************)
EXTENDS Integers, Sequences, FiniteSets, TLC

VARIABLES
    \* ---- calibration state of the main process and the rule files
    fileMtime,      \* st_mtime of each rule file, 0 = the file is absent
    lastSeen,       \* CALIBRATION_FILE_MTIMES, 0 = None
    loaded,         \* generation of the rule set held in the module globals
    writes,         \* number of file writes so far (bounds the run)
    lockHolder,     \* holder of _calibration_reload_lock, "none" when free
    rpc,            \* position of each refresh_calibration_assets call
    rtag,           \* index in the loaders dict of the tag a call is at
    \* ---- analyses (one inline thread of the main process, one pool worker)
    apc,            \* position of each analysis: idle, queued, hooks, done
    result,         \* the result dict the hooks rewrite
    captured,       \* globals of the main process when the analysis began
    used,           \* generation each hook read, -1 before it ran
    applied,        \* hooks run so far, in order
    payload,        \* payload["calibration_snapshot"] of the submitted job
    wglob,          \* module globals of the pool worker process
    \* ---- process_audio_bytes
    ppc,            \* position of the caller in process_audio_bytes
    clock,          \* wall clock, seconds since the call
    callerName,     \* multiprocessing.current_process().name of the caller
    maxWorkers,     \* max_workers argument
    timeoutArg,     \* timeout argument
    executor,       \* _analysis_executor of the calling process
    job,            \* state of the pool future
    inlineJob,      \* state of the inline analysis thread
    outcome,        \* what process_audio_bytes gave its caller
    deadline,       \* clock value at which the timed wait gives up
    \* ---- chunk analysis
    cpc,            \* position in attach_chunk_analysis
    track,          \* whole-track result entering attach_chunk_analysis
    summaries,      \* chunk_summaries
    windowsLeft,    \* windows the range() loop has still to visit
    slowChunks,     \* consecutive_slow_chunks
    truncated,      \* truncated flag of compute_chunk_summaries
    speeds,         \* speed class of each window analysed so far, in order
    merged,         \* result leaving attach_chunk_analysis
    \* ---- a function applied on its own
    fnIn,           \* the drawn input
    fnOut,          \* the function's output
    fnStage         \* "input" before the call, the function's stage after

calVars   == <<fileMtime, lastSeen, loaded, writes, lockHolder, rpc, rtag>>
anaVars   == <<apc, result, captured, used, applied, payload, wglob>>
procVars  == <<ppc, clock, callerName, maxWorkers, timeoutArg, executor, job,
               inlineJob, outcome, deadline>>
chunkVars == <<cpc, track, summaries, windowsLeft, slowChunks, truncated,
               speeds, merged>>
fnVars    == <<fnIn, fnOut, fnStage>>
vars      == <<calVars, anaVars, procVars, chunkVars, fnVars>>

(***************************************************************************)
(* Bounds of the model.                                                    *)
(***************************************************************************)
MaxWrites == 2
MaxRules == 2
MaxClock == 4
MaxWindows == 3

(***************************************************************************)
(* Arithmetic helpers.                                                     *)
(***************************************************************************)
Bpm(x) == 4 * x

Abs(x) == IF x < 0 THEN -x ELSE x

Max2(a, b) == IF a >= b THEN a ELSE b

Min2(a, b) == IF a <= b THEN a ELSE b

\* clamp_to_unit on a percent value
clamp_to_unit(v) == Max2(0, Min2(100, v))

SHORT_CLIP_THRESHOLD == 45

BPM_CAP == 10

(***************************************************************************)
(* Linear scalers: _calibrate_value and apply_calibration_layer.           *)
(* A scaler rule is [has, slopeQ, intercept, hasMin, min, hasMax, max];    *)
(* has = FALSE stands for a feature with no rule (or one without slope or  *)
(* intercept).  CALIBRATION_RULES is [bpm |-> rule, energy |-> rule].      *)
(***************************************************************************)
NoScaler == [has |-> FALSE, slopeQ |-> 4, intercept |-> 0,
             hasMin |-> FALSE, min |-> 0, hasMax |-> FALSE, max |-> 0]

EmptyScalers == [bpm |-> NoScaler, energy |-> NoScaler]

_calibrate_value(rule, value) ==
    IF ~rule.has
    THEN [value |-> value, changed |-> FALSE]
    ELSE LET scaled  == ((value * rule.slopeQ) \div 4) + rule.intercept
             floored == IF rule.hasMin THEN Max2(rule.min, scaled) ELSE scaled
             capped  == IF rule.hasMax THEN Min2(rule.max, floored) ELSE floored
         IN  [value |-> capped, changed |-> TRUE]

\* the scaler without the cap test
BpmCapExceededNever(calibrated, raw) == FALSE

BpmCapExceeded(calibrated, raw) == Abs(calibrated - raw) > Bpm(BPM_CAP)

IsShortClipScaler(r) == r.signal_duration < SHORT_CLIP_THRESHOLD

apply_calibration_layer(rules, r) ==
    IF ~rules.bpm.has /\ ~rules.energy.has
    THEN r
    ELSE LET is_short == IsShortClipScaler(r)
             sweet    == is_short /\ (Bpm(138) <= r.bpm /\ r.bpm <= Bpm(152))
             high     == is_short /\ r.bpm >= Bpm(145)
             bpmCal   == _calibrate_value(rules.bpm, r.bpm)
             skipBpm  == \/ is_short
                         \/ sweet
                         \/ high
                         \/ (bpmCal.changed /\ BpmCapExceeded(bpmCal.value, r.bpm))
             enCal    == _calibrate_value(rules.energy, r.energy)
         IN  [r EXCEPT !.bpm    = IF skipBpm \/ ~bpmCal.changed
                                  THEN r.bpm ELSE bpmCal.value,
                       !.energy = IF enCal.changed THEN enCal.value ELSE r.energy]

(***************************************************************************)
(* BPM rule engine: load_bpm_calibration and apply_bpm_calibration.        *)
(* A rule is [name, priority, enabled, bpm_range, energy_range,            *)
(* duration_max, confidence_min, action_type, factorH]; a range is         *)
(* [has, lo, hi]; duration_max = 0 and confidence_min = 0 are the falsy    *)
(* values the code treats as "no condition".                               *)
(***************************************************************************)
RECURSIVE FilterEnabled(_)
FilterEnabled(rules) ==
    IF rules = <<>> THEN <<>>
    ELSE IF Head(rules).enabled
         THEN <<Head(rules)>> \o FilterEnabled(Tail(rules))
         ELSE FilterEnabled(Tail(rules))

\* position of r in a list sorted by descending priority: behind every rule
\* of greater or equal priority (sorted() is stable, reverse=True keeps the
\* file order of equal priorities)
RECURSIVE InsertByPriority(_, _)
InsertByPriority(sorted, r) ==
    IF sorted = <<>> THEN <<r>>
    ELSE IF Head(sorted).priority >= r.priority
         THEN <<Head(sorted)>> \o InsertByPriority(Tail(sorted), r)
         ELSE <<r>> \o sorted

RECURSIVE SortByPriority(_)
SortByPriority(rules) ==
    IF rules = <<>> THEN <<>>
    ELSE InsertByPriority(SortByPriority(SubSeq(rules, 1, Len(rules) - 1)),
                          rules[Len(rules)])

load_bpm_calibration(fileRules) == SortByPriority(FilterEnabled(fileRules))

InRange(range, v) == (~range.has) \/ (range.lo <= v /\ v <= range.hi)

RuleConditionsHold(rule, r) ==
    /\ InRange(rule.bpm_range, r.bpm)
    /\ InRange(rule.energy_range, r.energy)
    /\ ~(rule.duration_max # 0 /\ r.signal_duration > rule.duration_max)
    /\ ~(rule.confidence_min # 0 /\ r.bpm_confidence < rule.confidence_min)

RuleFires(rule, r) == RuleConditionsHold(rule, r) /\ rule.action_type = "multiply"

ApplyRule(rule, r) ==
    [r EXCEPT !.bpm = (r.bpm * rule.factorH) \div 2,
              !.bpm_calibration_applied = rule.name]

\* the for loop of apply_bpm_calibration from rule i on; it returns at the
\* first rule that fires
RECURSIVE TryRulesFrom(_, _, _)
TryRulesFrom(rules, r, i) ==
    IF i > Len(rules) THEN r
    ELSE IF RuleFires(rules[i], r) THEN ApplyRule(rules[i], r)
         ELSE TryRulesFrom(rules, r, i + 1)

\* a loop that does not return after the first rule that fires
RECURSIVE TryRulesAll(_, _, _)
TryRulesAll(rules, r, i) ==
    IF i > Len(rules) THEN r
    ELSE IF RuleFires(rules[i], r) THEN TryRulesAll(rules, ApplyRule(rules[i], r), i + 1)
         ELSE TryRulesAll(rules, r, i + 1)

IsShortClipBpm(r) == r.signal_duration < SHORT_CLIP_THRESHOLD

\* the engine without the return after the first rule applied
apply_bpm_calibration_all(rules, r) ==
    IF rules = <<>> THEN r
    ELSE IF IsShortClipBpm(r) THEN r
    ELSE TryRulesAll(rules, r, 1)

apply_bpm_calibration(rules, r) ==
    IF rules = <<>> THEN r
    ELSE IF IsShortClipBpm(r) THEN r
    ELSE TryRulesFrom(rules, r, 1)

(***************************************************************************)
(* Ridge models: apply_calibration_models.  A model set is                 *)
(* [feature_columns, targets]; a target is [name, weights, means, stds,    *)
(* intercept, percent_scale].  Feature columns name fields of the result;  *)
(* a column the result does not carry reads as None.                       *)
(***************************************************************************)
EmptyModels == [feature_columns |-> <<>>, targets |-> <<>>]

RECURSIVE DotNormalized(_, _, _, _, _)
DotNormalized(x, means, stds, weights, i) ==
    IF i > Len(x) THEN 0
    ELSE LET sd == IF stds[i] = 0 THEN 1 ELSE stds[i]
         IN  (((x[i] - means[i]) \div sd) * weights[i])
             + DotNormalized(x, means, stds, weights, i + 1)

Predict(model, x) ==
    LET raw == DotNormalized(x, model.means, model.stds, model.weights, 1)
               + model.intercept
    IN  IF model.percent_scale THEN Max2(0, Min2(100, raw)) ELSE raw

RECURSIVE ApplyTargets(_, _, _, _)
ApplyTargets(targets, x, r, i) ==
    IF i > Len(targets) THEN r
    ELSE LET model == targets[i]
             next  == IF Len(x) # Len(model.weights) THEN r
                      ELSE [r EXCEPT ![model.name] = Predict(model, x)]
         IN  ApplyTargets(targets, x, next, i + 1)

apply_calibration_models(models, r) ==
    IF models.targets = <<>> THEN r
    ELSE IF models.feature_columns = <<>> THEN r
    ELSE IF \E i \in 1..Len(models.feature_columns) :
                models.feature_columns[i] \notin DOMAIN r
         THEN r
         ELSE LET x == [i \in 1..Len(models.feature_columns) |->
                            r[models.feature_columns[i]]]
              IN  ApplyTargets(models.targets, x, r, 1)

(***************************************************************************)
(* Key confusion remap: apply_key_calibration.  A canonical key id         *)
(* "<root>:<mode>" is held as root + 12 * (index of the mode - 1).  A key  *)
(* rule set                                                                *)
(* is [present, targets, raw_accuracy]: present is the truth value of the  *)
(* KEY_CALIBRATION_RULES dict, targets maps a canonical id to its list of  *)
(* [canonical, probability].  The vote table is an insertion-ordered list  *)
(* of [k, v], as the dict the code builds.                                 *)
(***************************************************************************)
\* the mode names normalize_key_label can return that the model carries
MODE_ALIASES == <<"major", "minor", "mixolydian">>

KeyIds == 0..(12 * Len(MODE_ALIASES) - 1)

canonical_key_id(root, mode) ==
    root + 12 * ((CHOOSE m \in 1..Len(MODE_ALIASES) : MODE_ALIASES[m] = mode) - 1)

\* the mode text after the colon is returned as it is written
parse_canonical_key_id(kid) ==
    [root |-> kid % 12, mode |-> MODE_ALIASES[(kid \div 12) + 1]]

_canonical_from_candidate(root, mode) ==
    [root |-> root % 12, mode |-> IF mode = "minor" THEN "minor" ELSE "major"]

EmptyKeyRules == [present |-> FALSE, targets |-> [k \in KeyIds |-> <<>>],
                  raw_accuracy |-> 0]

AddVote(votes, k, w) ==
    IF \E i \in 1..Len(votes) : votes[i].k = k
    THEN [i \in 1..Len(votes) |->
             IF votes[i].k = k THEN [k |-> k, v |-> votes[i].v + w] ELSE votes[i]]
    ELSE Append(votes, [k |-> k, v |-> w])

RECURSIVE VoteTargets(_, _, _, _)
VoteTargets(votes, targets, score, j) ==
    IF j > Len(targets) THEN votes
    ELSE IF targets[j].probability <= 0
         THEN VoteTargets(votes, targets, score, j + 1)
         ELSE VoteTargets(AddVote(votes, targets[j].canonical,
                                  score * targets[j].probability),
                          targets, score, j + 1)

RECURSIVE TotalProb(_, _)
TotalProb(targets, j) ==
    IF j > Len(targets) THEN 0
    ELSE (IF targets[j].probability <= 0 THEN 0 ELSE targets[j].probability)
         + TotalProb(targets, j + 1)

RECURSIVE VoteCandidates(_, _, _, _)
VoteCandidates(votes, cands, krules, i) ==
    IF i > Len(cands) THEN votes
    ELSE LET c        == cands[i]
             kid      == canonical_key_id(c.root, c.mode)
             targets  == krules.targets[kid]
             voted    == VoteTargets(votes, targets, c.score, 1)
             residual == Max2(0, 100 - TotalProb(targets, 1))
             withSelf == IF residual > 0
                         THEN AddVote(voted, kid, c.score * residual)
                         ELSE voted
         IN  VoteCandidates(withSelf, cands, krules, i + 1)

\* the entry of least vote
LeastVote(votes) ==
    LET i == CHOOSE i \in 1..Len(votes) :
                 /\ \A j \in 1..Len(votes) : votes[j].v >= votes[i].v
                 /\ \A j \in 1..(i - 1) : votes[j].v > votes[i].v
    IN  votes[i]

\* max(actual_votes.items(), key=vote): the first entry of greatest vote
BestVote(votes) ==
    LET i == CHOOSE i \in 1..Len(votes) :
                 /\ \A j \in 1..Len(votes) : votes[j].v <= votes[i].v
                 /\ \A j \in 1..(i - 1) : votes[j].v < votes[i].v
    IN  votes[i]

RECURSIVE SumVotes(_, _)
SumVotes(votes, i) ==
    IF i > Len(votes) THEN 0 ELSE votes[i].v + SumVotes(votes, i + 1)

RECURSIVE ScoredCandidates(_)
ScoredCandidates(scores) ==
    IF scores = <<>> THEN <<>>
    ELSE LET e    == Head(scores)
             sc   == clamp_to_unit(e.score)
             c    == _canonical_from_candidate(e.root, e.mode)
             rest == ScoredCandidates(Tail(scores))
         IN  IF sc <= 0 THEN rest
             ELSE <<[root |-> c.root, mode |-> c.mode, score |-> sc]>> \o rest

IsShortClipKey(r) ==
    r.signal_duration > 0 /\ r.signal_duration < SHORT_CLIP_THRESHOLD

apply_key_calibration(krules, r) ==
    IF ~krules.present THEN r
    ELSE IF IsShortClipKey(r) THEN r
    ELSE LET cands ==
                 IF r.key_scores # <<>>
                 THEN ScoredCandidates(r.key_scores)
                 ELSE <<[root  |-> r.key.root, mode |-> r.key.mode,
                         score |-> IF clamp_to_unit(r.key_confidence) = 0
                                   THEN 25
                                   ELSE clamp_to_unit(r.key_confidence)]>>
             votes == VoteCandidates(<<>>, cands, krules, 1)
         IN  IF votes = <<>> THEN r
             ELSE LET best      == BestVote(votes)
                      total     == SumVotes(votes, 1)
                      posterior == IF total > 0 THEN (100 * best.v) \div total ELSE 0
                      raw_conf  == clamp_to_unit(r.key_confidence)
                  IN  [r EXCEPT
                          !.key = parse_canonical_key_id(best.k),
                          !.key_confidence =
                              clamp_to_unit(Max2(raw_conf,
                                                 Max2(krules.raw_accuracy, posterior)))]

(***************************************************************************)
(* The rule files.  The content of a rule file is a function of its        *)
(* generation, which is also its modification time: generation 0 is the    *)
(* absent file (the loader leaves the rule set empty).                     *)
(***************************************************************************)
Tags == {"scalers", "models", "key", "bpm"}

\* the loaders dict of refresh_calibration_assets, in iteration order
TagOrder == <<"scalers", "models", "key", "bpm">>

ScalersOf(v) ==
    IF v = 0 THEN EmptyScalers
    ELSE [bpm    |-> [has |-> TRUE, slopeQ |-> 4, intercept |-> Bpm(2 * v),
                      hasMin |-> FALSE, min |-> 0, hasMax |-> FALSE, max |-> 0],
          energy |-> NoScaler]

KeyRulesOf(v) ==
    IF v = 0 THEN EmptyKeyRules
    ELSE [present |-> TRUE,
          targets |-> [k \in KeyIds |->
                          <<[canonical   |-> ((k + 7 * v) % 12) + 12 * (k \div 12),
                             probability |-> 60]>>],
          raw_accuracy |-> 50]

ModelsOf(v) ==
    IF v = 0 THEN EmptyModels
    ELSE [feature_columns |-> <<"bpm">>,
          targets |-> <<[name |-> "bpm", weights |-> <<1>>, means |-> <<0>>,
                         stds |-> <<1>>, intercept |-> Bpm(v),
                         percent_scale |-> FALSE]>>]

NoRange == [has |-> FALSE, lo |-> 0, hi |-> 0]

BpmFileOf(v) ==
    IF v = 0 THEN <<>>
    ELSE <<[name |-> "slow_ballad_double", priority |-> v, enabled |-> TRUE,
            bpm_range |-> [has |-> TRUE, lo |-> Bpm(60), hi |-> Bpm(90)],
            energy_range |-> NoRange, duration_max |-> 0, confidence_min |-> 0,
            action_type |-> "multiply", factorH |-> 4]>>

BpmRulesOf(v) == load_bpm_calibration(BpmFileOf(v))

(***************************************************************************)
(* The hook chain: CalibrationHooks.apply_all, with the hooks wired as in  *)
(* tools/analyze_repertoire_90.py.  G gives the generation of each rule    *)
(* set in the globals of the process that runs the hook.                   *)
(***************************************************************************)
\* the order with the BPM rule engine after the ridge models
HookOrderBpmLast == <<"scalers", "key", "models", "bpm">>

HookOrder == <<"scalers", "key", "bpm", "models">>

RunHook(h, G, r) ==
    CASE h = "scalers" -> apply_calibration_layer(ScalersOf(G["scalers"]), r)
      [] h = "key"     -> apply_key_calibration(KeyRulesOf(G["key"]), r)
      [] h = "bpm"     -> apply_bpm_calibration(BpmRulesOf(G["bpm"]), r)
      [] h = "models"  -> apply_calibration_models(ModelsOf(G["models"]), r)

RECURSIVE ApplyHooksFrom(_, _, _)
ApplyHooksFrom(G, r, i) ==
    IF i > Len(HookOrder) THEN r
    ELSE ApplyHooksFrom(G, RunHook(HookOrder[i], G, r), i + 1)

apply_all(G, r) == ApplyHooksFrom(G, r, 1)

RawResult(bpm, duration) ==
    [bpm |-> bpm, energy |-> 50, signal_duration |-> duration,
     bpm_confidence |-> 80, key |-> [root |-> 0, mode |-> "major"],
     key_scores |-> <<>>, key_confidence |-> 70,
     bpm_calibration_applied |-> "none"]

\* the raw results perform_audio_analysis hands to apply_all
Tracks == {RawResult(Bpm(72), 200), RawResult(Bpm(120), 30)}

BlankResult == RawResult(0, 0)

Procs == {"inline", "worker"}

Refreshers == {"r1", "r2"}

NoGen == [t \in Tags |-> -1]

ZeroGen == [t \in Tags |-> 0]

(***************************************************************************)
(* Initial states.  Each specification starts its own part and leaves the  *)
(* other parts idle.                                                       *)
(***************************************************************************)
\* the server loads the four rule sets at start: the files exist, and each
\* global holds what its loader read
CalInit ==
    /\ fileMtime = [t \in Tags |-> 1]
    /\ lastSeen = fileMtime
    /\ loaded = fileMtime
    /\ writes = 0
    /\ lockHolder = "none"
    /\ rpc = [r \in Refreshers |-> "idle"]
    /\ rtag = [r \in Refreshers |-> 1]

CalIdle ==
    /\ fileMtime = ZeroGen
    /\ lastSeen = ZeroGen
    /\ loaded = ZeroGen
    /\ writes = 0
    /\ lockHolder = "none"
    /\ rpc = [r \in Refreshers |-> "idle"]
    /\ rtag = [r \in Refreshers |-> 1]

AnaInit ==
    /\ apc = [p \in Procs |-> "idle"]
    /\ result = [p \in Procs |-> BlankResult]
    /\ captured = [p \in Procs |-> [gen |-> ZeroGen, raw |-> BlankResult]]
    /\ used = [p \in Procs |-> NoGen]
    /\ applied = [p \in Procs |-> <<>>]
    /\ payload = [scalers |-> 0, models |-> 0, key |-> 0]
    /\ wglob = ZeroGen

\* multiprocessing.current_process().name: the main process, a pool worker
ProcessNames == {"MainProcess", "SpawnProcess-1"}

ProcIdle ==
    /\ ppc = "idle"
    /\ clock = 0
    /\ callerName = "MainProcess"
    /\ maxWorkers = 0
    /\ timeoutArg = 0
    /\ executor = [n \in ProcessNames |-> FALSE]
    /\ job = "none"
    /\ inlineJob = "none"
    /\ outcome = "none"
    /\ deadline = 0

ChunkIdle ==
    /\ cpc = "idle"
    /\ track = [bpm |-> 0, key |-> [root |-> 0, mode |-> "Major"],
                key_confidence |-> 0, key_modulating |-> FALSE,
                key_dispersion_semitones |-> -1]
    /\ summaries = <<>>
    /\ windowsLeft = 0
    /\ slowChunks = 0
    /\ truncated = FALSE
    /\ speeds = <<>>
    /\ merged = [bpm |-> 0, key |-> [root |-> 0, mode |-> "Major"],
                 key_confidence |-> 0, key_modulating |-> FALSE,
                 key_dispersion_semitones |-> -1]

FnIdle ==
    /\ fnIn = <<>>
    /\ fnOut = <<>>
    /\ fnStage = "idle"

(***************************************************************************)
(* The rule files change under the server: a tool or the calibration route *)
(* rewrites one.  Nothing orders a write with respect to a refresh.        *)
(***************************************************************************)
FileWrite(t) ==
    /\ writes < MaxWrites
    /\ writes' = writes + 1
    /\ fileMtime' = [fileMtime EXCEPT ![t] = @ + 1]
    /\ UNCHANGED <<lastSeen, loaded, lockHolder, rpc, rtag>>
    /\ UNCHANGED <<anaVars, procVars, chunkVars, fnVars>>

(***************************************************************************)
(* refresh_calibration_assets, one step per statement that reads the file  *)
(* system: the lock, then for each tag the stat and compare, the loader's  *)
(* read of the file, and the stat that records the modification time.      *)
(***************************************************************************)
RefreshAdvance(r) ==
    IF rtag[r] = Len(TagOrder)
    THEN /\ rpc' = [rpc EXCEPT ![r] = "returned"]
         /\ lockHolder' = "none"
         /\ rtag' = rtag
    ELSE /\ rpc' = [rpc EXCEPT ![r] = "compare"]
         /\ rtag' = [rtag EXCEPT ![r] = @ + 1]
         /\ lockHolder' = lockHolder

LockFree(r) == lockHolder = "none"

RefreshAcquire(r) ==
    /\ rpc[r] = "idle"
    /\ LockFree(r)
    /\ lockHolder' = r
    /\ rpc' = [rpc EXCEPT ![r] = "compare"]
    /\ rtag' = [rtag EXCEPT ![r] = 1]
    /\ UNCHANGED <<fileMtime, lastSeen, loaded, writes>>
    /\ UNCHANGED <<anaVars, procVars, chunkVars, fnVars>>

MtimeChanged(t) == fileMtime[t] # lastSeen[t]

RefreshCompare(r) ==
    /\ rpc[r] = "compare"
    /\ IF MtimeChanged(TagOrder[rtag[r]])
       THEN /\ rpc' = [rpc EXCEPT ![r] = "load"]
            /\ UNCHANGED <<rtag, lockHolder>>
       ELSE RefreshAdvance(r)
    /\ UNCHANGED <<fileMtime, lastSeen, loaded, writes>>
    /\ UNCHANGED <<anaVars, procVars, chunkVars, fnVars>>

\* loader(): the file is opened and read, the globals are replaced
RefreshLoad(r) ==
    /\ rpc[r] = "load"
    /\ loaded' = [loaded EXCEPT ![TagOrder[rtag[r]]] = fileMtime[TagOrder[rtag[r]]]]
    /\ rpc' = [rpc EXCEPT ![r] = "record"]
    /\ UNCHANGED <<fileMtime, lastSeen, writes, lockHolder, rtag>>
    /\ UNCHANGED <<anaVars, procVars, chunkVars, fnVars>>

\* _record_calibration_mtime in the loader and line 403: st_mtime is read
\* again, after the load
RefreshRecord(r) ==
    /\ rpc[r] = "record"
    /\ lastSeen' = [lastSeen EXCEPT ![TagOrder[rtag[r]]] = fileMtime[TagOrder[rtag[r]]]]
    /\ RefreshAdvance(r)
    /\ UNCHANGED <<fileMtime, loaded, writes>>
    /\ UNCHANGED <<anaVars, procVars, chunkVars, fnVars>>

RefreshReturn(r) ==
    /\ rpc[r] = "returned"
    /\ rpc' = [rpc EXCEPT ![r] = "idle"]
    /\ UNCHANGED <<fileMtime, lastSeen, loaded, writes, lockHolder, rtag>>
    /\ UNCHANGED <<anaVars, procVars, chunkVars, fnVars>>

(***************************************************************************)
(* Analyses.  The inline analysis runs perform_audio_analysis in a thread  *)
(* of the main process and reads the module globals when each hook runs;   *)
(* the pool worker is a spawned process with module globals of its own,    *)
(* which apply_calibration_snapshot overwrites from the payload.  One      *)
(* request is analysed at a time.                                          *)
(***************************************************************************)
\* calibration_snapshot(): the keys the snapshot dict carries
SnapshotTags == {"scalers", "models", "key"}

calibration_snapshot == [t \in {"scalers", "models", "key"} |-> loaded[t]]

StartInline(trk) ==
    /\ \A p \in Procs : apc[p] = "idle"
    /\ apc' = [apc EXCEPT !["inline"] = "hooks"]
    /\ result' = [result EXCEPT !["inline"] = trk]
    /\ captured' = [captured EXCEPT !["inline"] = [gen |-> loaded, raw |-> trk]]
    /\ UNCHANGED <<used, applied, payload, wglob>>
    /\ UNCHANGED <<calVars, procVars, chunkVars, fnVars>>

\* process_audio_bytes builds the payload and submits it
SubmitToPool(trk) ==
    /\ \A p \in Procs : apc[p] = "idle"
    /\ apc' = [apc EXCEPT !["worker"] = "queued"]
    /\ payload' = calibration_snapshot
    /\ result' = [result EXCEPT !["worker"] = trk]
    /\ captured' = [captured EXCEPT !["worker"] = [gen |-> loaded, raw |-> trk]]
    /\ UNCHANGED <<used, applied, wglob>>
    /\ UNCHANGED <<calVars, procVars, chunkVars, fnVars>>

\* _analysis_worker_job: apply_calibration_snapshot(payload[...])
apply_calibration_snapshot(snapshot) ==
    [t \in Tags |-> IF t \in SnapshotTags THEN snapshot[t] ELSE wglob[t]]

WorkerBegin ==
    /\ apc["worker"] = "queued"
    /\ wglob' = apply_calibration_snapshot(payload)
    /\ apc' = [apc EXCEPT !["worker"] = "hooks"]
    /\ UNCHANGED <<result, captured, used, applied, payload>>
    /\ UNCHANGED <<calVars, procVars, chunkVars, fnVars>>

ProcessGlobals(p) == IF p = "inline" THEN loaded ELSE wglob

RunNextHook(p) ==
    /\ apc[p] = "hooks"
    /\ LET h == HookOrder[Len(applied[p]) + 1]
           G == ProcessGlobals(p)
       IN  /\ result' = [result EXCEPT ![p] = RunHook(h, G, result[p])]
           /\ used' = [used EXCEPT ![p][h] = G[h]]
           /\ applied' = [applied EXCEPT ![p] = Append(@, h)]
           /\ apc' = [apc EXCEPT ![p] = IF Len(applied[p]) + 1 = Len(HookOrder)
                                        THEN "done" ELSE "hooks"]
    /\ UNCHANGED <<captured, payload, wglob>>
    /\ UNCHANGED <<calVars, procVars, chunkVars, fnVars>>

FinishAnalysis(p) ==
    /\ apc[p] = "done"
    /\ apc' = [apc EXCEPT ![p] = "idle"]
    /\ result' = [result EXCEPT ![p] = BlankResult]
    /\ captured' = [captured EXCEPT ![p] = [gen |-> ZeroGen, raw |-> BlankResult]]
    /\ used' = [used EXCEPT ![p] = NoGen]
    /\ applied' = [applied EXCEPT ![p] = <<>>]
    /\ UNCHANGED <<payload, wglob>>
    /\ UNCHANGED <<calVars, procVars, chunkVars, fnVars>>

\* two request threads may call refresh_calibration_assets at once
NextRefresh ==
    \/ \E t \in Tags : FileWrite(t)
    \/ \E r \in Refreshers : RefreshAcquire(r)
    \/ \E r \in Refreshers : RefreshCompare(r)
    \/ \E r \in Refreshers : RefreshLoad(r)
    \/ \E r \in Refreshers : RefreshRecord(r)
    \/ \E r \in Refreshers : RefreshReturn(r)

InitRefresh == CalInit /\ AnaInit /\ ProcIdle /\ ChunkIdle /\ FnIdle

SpecRefresh == InitRefresh /\ [][NextRefresh]_vars

\* one refreshing thread beside the analyses
NextCal ==
    \/ \E t \in Tags : FileWrite(t)
    \/ RefreshAcquire("r1")
    \/ RefreshCompare("r1")
    \/ RefreshLoad("r1")
    \/ RefreshRecord("r1")
    \/ RefreshReturn("r1")
    \/ \E trk \in Tracks : StartInline(trk)
    \/ \E trk \in Tracks : SubmitToPool(trk)
    \/ WorkerBegin
    \/ \E p \in Procs : RunNextHook(p)
    \/ \E p \in Procs : FinishAnalysis(p)

InitCal == CalInit /\ AnaInit /\ ProcIdle /\ ChunkIdle /\ FnIdle

SpecCal == InitCal /\ [][NextCal]_vars

(***************************************************************************)
(* Properties of the hook chain, the snapshot and the refresh.             *)
(***************************************************************************)
IsPrefix(s, t) == Len(s) <= Len(t) /\ s = SubSeq(t, 1, Len(s))

\* the corrections composed in the order of apply_all, each on the rule set
\* generation its hook read
ComposedInCodeOrder(p) ==
    apply_calibration_models(ModelsOf(used[p]["models"]),
      apply_bpm_calibration(BpmRulesOf(used[p]["bpm"]),
        apply_key_calibration(KeyRulesOf(used[p]["key"]),
          apply_calibration_layer(ScalersOf(used[p]["scalers"]),
                                  captured[p].raw))))

\* C1 as stated: the corrections run in the order scalers, key remap, ridge
\* models, BPM rule engine, so that the BPM rule engine is the last to run.
C1_BpmRuleEngineLast ==
    \A p \in Procs :
        IsPrefix(applied[p], <<"scalers", "key", "models", "bpm">>)

\* C1 amended: the corrections run in the order scalers, key remap, BPM rule
\* engine, ridge models; the ridge models are the last to run, and the
\* finished result is the composition of the four in that order.
C1_HookOrder ==
    \A p \in Procs :
        /\ IsPrefix(applied[p], <<"scalers", "key", "bpm", "models">>)
        /\ apc[p] = "done" => result[p] = ComposedInCodeOrder(p)

\* an analysis where a BPM rule fired and the ridge model then rewrote bpm
C1_Witness ==
    \E p \in Procs :
        /\ apc[p] = "done"
        /\ applied[p] = <<"scalers", "key", "bpm", "models">>
        /\ result[p].bpm_calibration_applied = "slow_ballad_double"
        /\ used[p]["models"] > 0
        /\ result[p].bpm = 2 * (captured[p].raw.bpm + Bpm(2 * used[p]["scalers"]))
                           + Bpm(used[p]["models"])

\* C5 as stated, for the inline analysis: every calibration step of an
\* analysis in flight reads the rule set generation the analysis captured
\* when it started, whatever is reloaded meanwhile.
C5_NoTornRead ==
    \A t \in Tags :
        used["inline"][t] # -1 => used["inline"][t] = captured["inline"].gen[t]

\* C6 as stated: a track analysed in a pool worker yields the calibrated
\* result the inline analysis yields from the rule sets of the main process
\* at the moment of the submission.
C6_WorkerSameAsInline ==
    apc["worker"] = "done" =>
        result["worker"] = apply_all(captured["worker"].gen, captured["worker"].raw)

\* C8 as stated: whenever no refresh is in progress, the last-seen value of
\* every rule set is the modification time of the file content that is
\* loaded.
C8_LastSeenIsLoaded ==
    lockHolder = "none" => \A t \in Tags : lastSeen[t] = loaded[t]

(***************************************************************************)
(* apply_calibration_layer as a function of the scaler rules and the raw   *)
(* result.  The inputs: a bpm rule with slope 0.5, 1, 1.25 or 1.5, an      *)
(* intercept, and no clamp, a floor or a ceiling; a raw result.            *)
(***************************************************************************)
ScalerRuleInputs ==
    {[has |-> h, slopeQ |-> s, intercept |-> Bpm(i),
      hasMin |-> c = "min", min |-> Bpm(100),
      hasMax |-> c = "max", max |-> Bpm(100)] :
        h \in BOOLEAN, s \in {2, 4, 5, 6}, i \in {-12, 0, 5, 12},
        c \in {"none", "min", "max"}}

ScalerResultInputs ==
    {RawResult(Bpm(b), d) : b \in {40, 80, 120, 144, 160}, d \in {30, 200}}

InitScaler ==
    /\ CalIdle /\ AnaInit /\ ProcIdle /\ ChunkIdle
    /\ fnIn \in {[rules |-> [bpm |-> rule, energy |-> NoScaler], r |-> r] :
                    rule \in ScalerRuleInputs, r \in ScalerResultInputs}
    /\ fnOut = <<>>
    /\ fnStage = "input"

ScalerApply ==
    /\ fnStage = "input"
    /\ fnOut' = apply_calibration_layer(fnIn.rules, fnIn.r)
    /\ fnStage' = "scaled"
    /\ UNCHANGED <<fnIn, calVars, anaVars, procVars, chunkVars>>

SpecScaler == InitScaler /\ [][ScalerApply]_vars

\* C2: after apply_calibration_layer the bpm differs from the raw bpm by at
\* most 10 BPM, and when the scaled (and clamped) value differs from the raw
\* bpm by more than 10 BPM the bpm is exactly the raw value.
C2_BpmScalerCap ==
    fnStage = "scaled" =>
        /\ Abs(fnOut.bpm - fnIn.r.bpm) <= Bpm(10)
        /\ (/\ fnIn.rules.bpm.has
            /\ Abs(_calibrate_value(fnIn.rules.bpm, fnIn.r.bpm).value - fnIn.r.bpm)
                   > Bpm(10))
           => fnOut.bpm = fnIn.r.bpm

\* a full-length track whose scaled bpm is 20 BPM above the raw bpm and is
\* left at the raw value
C2_Witness ==
    /\ fnStage = "scaled"
    /\ fnIn.rules.bpm.has
    /\ fnIn.r.signal_duration = 200
    /\ (fnIn.r.bpm * fnIn.rules.bpm.slopeQ) \div 4 + fnIn.rules.bpm.intercept
           = fnIn.r.bpm + Bpm(20)
    /\ ~fnIn.rules.bpm.hasMin /\ ~fnIn.rules.bpm.hasMax
    /\ fnOut.bpm = fnIn.r.bpm

(***************************************************************************)
(* load_bpm_calibration and apply_bpm_calibration as a function of the     *)
(* rule file and the result.  A rule of the file combines a priority, the  *)
(* enabled flag, one of four condition blocks and an action type; the      *)
(* position in the file gives the name.                                    *)
(***************************************************************************)
RuleNames == <<"rule_a", "rule_b", "rule_c", "rule_d">>

ConditionInputs ==
    {[bpm_range |-> [has |-> TRUE, lo |-> Bpm(60), hi |-> Bpm(90)],
      energy_range |-> NoRange, duration_max |-> 0, confidence_min |-> 0,
      factorH |-> 4],
     [bpm_range |-> NoRange,
      energy_range |-> [has |-> TRUE, lo |-> 0, hi |-> 50],
      duration_max |-> 0, confidence_min |-> 50, factorH |-> 1],
     [bpm_range |-> NoRange, energy_range |-> NoRange,
      duration_max |-> 40, confidence_min |-> 0, factorH |-> 4],
     [bpm_range |-> NoRange, energy_range |-> NoRange,
      duration_max |-> 300, confidence_min |-> 90, factorH |-> 1]}

RuleInputs(i) ==
    {[name |-> RuleNames[i], priority |-> p, enabled |-> e,
      bpm_range |-> c.bpm_range, energy_range |-> c.energy_range,
      duration_max |-> c.duration_max, confidence_min |-> c.confidence_min,
      action_type |-> a, factorH |-> c.factorH] :
        p \in {1, 2}, e \in BOOLEAN, c \in ConditionInputs,
        a \in {"multiply", "add"}}

RuleFileInputs ==
    UNION {{f \in [1..n -> UNION {RuleInputs(i) : i \in 1..n}] :
               \A i \in 1..n : f[i].name = RuleNames[i]} : n \in 0..MaxRules}

BpmResultInputs ==
    {[RawResult(Bpm(b), d) EXCEPT !.energy = e] :
        b \in {72, 120}, e \in {30, 80}, d \in {30, 200}}

InitBpmRules ==
    /\ CalIdle /\ AnaInit /\ ProcIdle /\ ChunkIdle
    /\ fnIn \in {[file |-> f, r |-> r] : f \in RuleFileInputs, r \in BpmResultInputs}
    /\ fnOut = <<>>
    /\ fnStage = "input"

BpmRulesApply ==
    /\ fnStage = "input"
    /\ fnOut' = apply_bpm_calibration(load_bpm_calibration(fnIn.file), fnIn.r)
    /\ fnStage' = "ruled"
    /\ UNCHANGED <<fnIn, calVars, anaVars, procVars, chunkVars>>

SpecBpmRules == InitBpmRules /\ [][BpmRulesApply]_vars

\* rule i of the file comes before rule j in the order the rules are tried:
\* greater priority first, file order among equal priorities
TriedBefore(file, i, j) ==
    \/ file[i].priority > file[j].priority
    \/ (file[i].priority = file[j].priority /\ i < j)

FirstOf(file, S) == CHOOSE i \in S : \A j \in S \ {i} : TriedBefore(file, i, j)

Multiplied(rule, r) ==
    [r EXCEPT !.bpm = (r.bpm * rule.factorH) \div 2,
              !.bpm_calibration_applied = rule.name]

\* the enabled rules whose four conditions hold for the result
Matching(file, r) ==
    {i \in 1..Len(file) : file[i].enabled /\ RuleConditionsHold(file[i], r)}

MatchingMultiply(file, r) ==
    {i \in Matching(file, r) : file[i].action_type = "multiply"}

get_analysis_executor_any_process(name, max_workers) ==
    IF max_workers <= 0 THEN "None" ELSE "pool"

get_analysis_executor(name, max_workers) ==
    IF max_workers <= 0 THEN "None"
    ELSE IF name # "MainProcess" THEN "None"
    ELSE "pool"

TimeoutInputs == {0, 2}

Call(name, mw, t) ==
    /\ ppc = "idle"
    /\ ppc' = "get_executor"
    /\ callerName' = name
    /\ maxWorkers' = mw
    /\ timeoutArg' = t
    /\ clock' = 0
    /\ deadline' = 0
    /\ job' = "none"
    /\ inlineJob' = "none"
    /\ outcome' = "none"
    /\ UNCHANGED <<executor, calVars, anaVars, chunkVars, fnVars>>

\* executor = get_analysis_executor(max_workers); with a pool, submit and
\* enter future.result(timeout=timeout)
GetExecutor ==
    /\ ppc = "get_executor"
    /\ IF get_analysis_executor(callerName, maxWorkers) = "pool"
       THEN /\ executor' = [executor EXCEPT ![callerName] = TRUE]
            /\ job' = "running"
            /\ deadline' = clock + timeoutArg
            /\ ppc' = "wait_pool"
       ELSE /\ ppc' = "inline_start"
            /\ UNCHANGED <<executor, job, deadline>>
    /\ UNCHANGED <<clock, callerName, maxWorkers, timeoutArg, inlineJob, outcome>>
    /\ UNCHANGED <<calVars, anaVars, chunkVars, fnVars>>

JobFinish ==
    /\ job = "running"
    /\ job' = "finished"
    /\ UNCHANGED <<ppc, clock, callerName, maxWorkers, timeoutArg, executor,
                   inlineJob, outcome, deadline>>
    /\ UNCHANGED <<calVars, anaVars, chunkVars, fnVars>>

\* the worker job raises (or the pool breaks)
JobFail ==
    /\ job = "running"
    /\ job' = "failed"
    /\ UNCHANGED <<ppc, clock, callerName, maxWorkers, timeoutArg, executor,
                   inlineJob, outcome, deadline>>
    /\ UNCHANGED <<calVars, anaVars, chunkVars, fnVars>>

PoolResult ==
    /\ ppc = "wait_pool"
    /\ job = "finished"
    /\ outcome' = "result"
    /\ ppc' = "returned"
    /\ UNCHANGED <<clock, callerName, maxWorkers, timeoutArg, executor, job,
                   inlineJob, deadline>>
    /\ UNCHANGED <<calVars, anaVars, chunkVars, fnVars>>

\* except concurrent.futures.TimeoutError: raise TimeoutError
PoolTimeout ==
    /\ ppc = "wait_pool"
    /\ job = "running"
    /\ clock >= deadline
    /\ outcome' = "timeout"
    /\ ppc' = "returned"
    /\ UNCHANGED <<clock, callerName, maxWorkers, timeoutArg, executor, job,
                   inlineJob, deadline>>
    /\ UNCHANGED <<calVars, anaVars, chunkVars, fnVars>>

\* the handler that also falls through when the wait timed out
FallsThroughOnTimeout(jobState) == jobState \in {"failed", "running"}

\* the handlers of future.result: only except Exception falls through
FallsThrough(jobState) == jobState = "failed"

\* except Exception: logged, control falls through to the inline path
PoolFallback ==
    /\ ppc = "wait_pool"
    /\ FallsThrough(job)
    /\ ppc' = "inline_start"
    /\ UNCHANGED <<clock, callerName, maxWorkers, timeoutArg, executor, job,
                   inlineJob, outcome, deadline>>
    /\ UNCHANGED <<calVars, anaVars, chunkVars, fnVars>>

\* timeout > 0: one-shot ThreadPoolExecutor and future.result(timeout);
\* otherwise _run_analysis_inline is called directly
InlineStart ==
    /\ ppc = "inline_start"
    /\ inlineJob' = "running"
    /\ IF timeoutArg > 0
       THEN ppc' = "wait_thread" /\ deadline' = clock + timeoutArg
       ELSE ppc' = "inline_direct" /\ deadline' = deadline
    /\ UNCHANGED <<clock, callerName, maxWorkers, timeoutArg, executor, job, outcome>>
    /\ UNCHANGED <<calVars, anaVars, chunkVars, fnVars>>

InlineFinish ==
    /\ inlineJob = "running"
    /\ inlineJob' = "finished"
    /\ UNCHANGED <<ppc, clock, callerName, maxWorkers, timeoutArg, executor, job,
                   outcome, deadline>>
    /\ UNCHANGED <<calVars, anaVars, chunkVars, fnVars>>

\* the result is there: future.result returns it, or the direct call returns
InlineResult ==
    /\ ppc \in {"wait_thread", "inline_direct"}
    /\ inlineJob = "finished"
    /\ outcome' = "result"
    /\ ppc' = "returned"
    /\ UNCHANGED <<clock, callerName, maxWorkers, timeoutArg, executor, job,
                   inlineJob, deadline>>
    /\ UNCHANGED <<calVars, anaVars, chunkVars, fnVars>>

\* future.result raises inside the with block: the TimeoutError is raised
\* there, and leaving the block runs thread_pool.shutdown(wait=True)
ThreadTimeout ==
    /\ ppc = "wait_thread"
    /\ inlineJob = "running"
    /\ clock >= deadline
    /\ ppc' = "shutdown_wait"
    /\ UNCHANGED <<clock, callerName, maxWorkers, timeoutArg, executor, job,
                   inlineJob, outcome, deadline>>
    /\ UNCHANGED <<calVars, anaVars, chunkVars, fnVars>>

\* ThreadPoolExecutor.__exit__ joins the worker thread; the TimeoutError
\* reaches the caller once the analysis has finished
ShutdownDone ==
    /\ ppc = "shutdown_wait"
    /\ inlineJob = "finished"
    /\ outcome' = "timeout"
    /\ ppc' = "returned"
    /\ UNCHANGED <<clock, callerName, maxWorkers, timeoutArg, executor, job,
                   inlineJob, deadline>>
    /\ UNCHANGED <<calVars, anaVars, chunkVars, fnVars>>

InTimedWait == ppc \in {"wait_pool", "wait_thread"}

Tick ==
    /\ clock < MaxClock
    /\ ppc \in {"wait_pool", "wait_thread", "inline_direct", "shutdown_wait"}
    /\ InTimedWait => clock < deadline
    /\ clock' = clock + 1
    /\ UNCHANGED <<ppc, callerName, maxWorkers, timeoutArg, executor, job,
                   inlineJob, outcome, deadline>>
    /\ UNCHANGED <<calVars, anaVars, chunkVars, fnVars>>

Return ==
    /\ ppc = "returned"
    /\ ppc' = "idle"
    /\ UNCHANGED <<clock, callerName, maxWorkers, timeoutArg, executor, job,
                   inlineJob, outcome, deadline>>
    /\ UNCHANGED <<calVars, anaVars, chunkVars, fnVars>>

NextProc ==
    \/ \E name \in ProcessNames, mw \in 0..2, t \in TimeoutInputs : Call(name, mw, t)
    \/ GetExecutor
    \/ JobFinish
    \/ JobFail
    \/ PoolResult
    \/ PoolTimeout
    \/ PoolFallback
    \/ InlineStart
    \/ InlineFinish
    \/ InlineResult
    \/ ThreadTimeout
    \/ ShutdownDone
    \/ Tick
    \/ Return

InitProc == CalIdle /\ AnaInit /\ ProcIdle /\ ChunkIdle /\ FnIdle

SpecProc == InitProc /\ [][NextProc]_vars

\* C4 as stated: with timeout > 0 the caller is never still inside
\* process_audio_bytes once the clock has passed the deadline of its wait:
\* the call has failed at the deadline, on the pool path and the inline path.
C4_FailsAtDeadline ==
    (timeoutArg > 0 /\ ppc \notin {"idle", "returned"}) => clock <= deadline

\* C7: in a process other than MainProcess no pool is ever created and no
\* job is ever submitted to one, whatever max_workers is; the analysis of
\* such a caller runs inline.
C7_NoNestedPool ==
    /\ \A n \in ProcessNames \ {"MainProcess"} : ~executor[n]
    /\ callerName # "MainProcess" =>
           /\ job = "none"
           /\ ppc \notin {"wait_pool"}
           /\ outcome = "result" => inlineJob = "finished"

\* a worker process asked for two workers and got its result inline
C7_Witness ==
    /\ callerName = "SpawnProcess-1"
    /\ maxWorkers = 2
    /\ ppc = "returned"
    /\ outcome = "result"
    /\ inlineJob = "finished"
    /\ job = "none"

(***************************************************************************)
(* Chunk analysis: compute_chunk_summaries, build_chunk_consensus,         *)
(* merge_chunk_consensus and attach_chunk_analysis.  Of the result only    *)
(* bpm and key (as [root, mode]) are followed; a window summary is         *)
(* [bpm, key_index, key_mode, key_confidence, energy, energy_weight].      *)
(* A window's analysis is normal, slow (over max(5, chunk_seconds) but not *)
(* over CHUNK_TIMEOUT_SECONDS) or timeout (over CHUNK_TIMEOUT_SECONDS).    *)
(***************************************************************************)
MAX_CHUNK_BATCHES == 16

MAX_SLOW_CHUNKS == 2

RECURSIVE InsertAscending(_, _)
InsertAscending(sorted, v) ==
    IF sorted = <<>> THEN <<v>>
    ELSE IF Head(sorted) <= v
         THEN <<Head(sorted)>> \o InsertAscending(Tail(sorted), v)
         ELSE <<v>> \o sorted

RECURSIVE SortAscending(_)
SortAscending(values) ==
    IF values = <<>> THEN <<>>
    ELSE InsertAscending(SortAscending(Tail(values)), Head(values))

\* np.median: the middle value, or the mean of the two middle values
np_median(values) ==
    LET s == SortAscending(values)
        n == Len(s)
    IN  IF n % 2 = 1 THEN s[(n + 1) \div 2]
        ELSE (s[n \div 2] + s[(n \div 2) + 1]) \div 2

RECURSIVE SumWeights(_, _)
SumWeights(chunk_summaries, i) ==
    IF i > Len(chunk_summaries) THEN 0
    ELSE Max2(1, chunk_summaries[i].energy_weight)
         + SumWeights(chunk_summaries, i + 1)

\* _weighted_stat(chunk_summaries, "bpm", use_median=True)
_weighted_stat_bpm(chunk_summaries) ==
    [value      |-> np_median([i \in 1..Len(chunk_summaries) |-> chunk_summaries[i].bpm]),
     count      |-> Len(chunk_summaries),
     weight_sum |-> SumWeights(chunk_summaries, 1)]

_key_mode_label(mode_value) == IF mode_value = "minor" THEN "Minor" ELSE "Major"

\* _key_entries and the weight_map of build_chunk_consensus
RECURSIVE KeyWeightMap(_, _, _)
KeyWeightMap(votes, chunk_summaries, i) ==
    IF i > Len(chunk_summaries) THEN votes
    ELSE LET c == chunk_summaries[i]
         IN  IF c.key_confidence < 10
             THEN KeyWeightMap(votes, chunk_summaries, i + 1)
             ELSE KeyWeightMap(
                      AddVote(votes,
                              [root |-> c.key_index % 12,
                               mode |-> _key_mode_label(c.key_mode)],
                              c.key_confidence * Max2(10, c.energy_weight)),
                      chunk_summaries, i + 1)

\* _key_entries: [root, weight] of each window that votes, the weight
\* key_confidence * energy_weight in hundredths
RECURSIVE _key_entries(_, _)
_key_entries(chunk_summaries, i) ==
    IF i > Len(chunk_summaries) THEN <<>>
    ELSE LET c == chunk_summaries[i]
         IN  IF c.key_confidence < 10
             THEN _key_entries(chunk_summaries, i + 1)
             ELSE <<[root   |-> c.key_index % 12,
                     weight |-> (c.key_confidence * Max2(10, c.energy_weight)) \div 100]>>
                  \o _key_entries(chunk_summaries, i + 1)

\* math.cos and math.sin of root * 2 * pi / 12, in hundredths
COS100 == <<100, 87, 50, 0, -50, -87, -100, -87, -50, 0, 50, 87>>

SIN100 == <<0, 50, 87, 100, 87, 50, 0, -50, -87, -100, -87, -50>>

RECURSIVE EntrySum(_, _, _)
EntrySum(entries, table, i) ==
    IF i > Len(entries) THEN 0
    ELSE (IF table = <<>> THEN entries[i].weight
          ELSE table[entries[i].root + 1] * entries[i].weight)
         + EntrySum(entries, table, i + 1)

ISqrt(n) == CHOOSE r \in 0..200 : r * r <= n /\ n < (r + 1) * (r + 1)

\* sqrt(-2 ln R) * 12 / (2 pi) in hundredths of a semitone, for R = 0.00
\* (clamped to 1e-9), 0.01, ..., 1.00
DISPERSION_OF_R ==
    <<1230, 580, 534, 506, 485, 467, 453, 440, 429, 419, 410, 401, 393, 386,
      379, 372, 366, 360, 354, 348, 343, 337, 332, 327, 323, 318, 313, 309,
      305, 301, 296, 292, 288, 284, 281, 277, 273, 269, 266, 262, 259, 255,
      252, 248, 245, 241, 238, 235, 231, 228, 225, 222, 218, 215, 212, 209,
      206, 203, 199, 196, 193, 190, 187, 184, 180, 177, 174, 171, 168, 165,
      161, 158, 155, 152, 148, 145, 141, 138, 135, 131, 128, 124, 120, 117,
      113, 109, 105, 101, 97, 92, 88, 83, 78, 73, 67, 61, 55, 47, 38, 27, 0>>

\* the mean resultant length R of the weighted roots on the circle of
\* twelve, in hundredths, clamped to [1e-9, 1]
ResultantLength(entries) ==
    LET total   == EntrySum(entries, <<>>, 1)
        cos_sum == EntrySum(entries, COS100, 1)
        sin_sum == EntrySum(entries, SIN100, 1)
    IN  Min2(100, ISqrt((cos_sum * cos_sum + sin_sum * sin_sum) \div (total * total)))

\* _key_dispersion, in hundredths of a semitone; -1 stands for None
_key_dispersion(entries) ==
    IF EntrySum(entries, <<>>, 1) <= 0 THEN -1
    ELSE DISPERSION_OF_R[ResultantLength(entries) + 1]

KEY_MODULATION_THRESHOLD == 300

KEY_MODULATING_CONFIDENCE_CAP == 45

\* the rule without the modulation branch
IsModulatingNever(dispersion) == FALSE

IsModulating(dispersion) == dispersion # -1 /\ dispersion > KEY_MODULATION_THRESHOLD

build_chunk_consensus(chunk_summaries) ==
    LET weight_map == KeyWeightMap(<<>>, chunk_summaries, 1)
        entries    == _key_entries(chunk_summaries, 1)
        best       == BestVote(weight_map)
        share      == Min2(100, (100 * best.v) \div SumVotes(weight_map, 1))
        dispersion == _key_dispersion(entries)
    IN  IF weight_map = <<>>
        THEN [bpm     |-> _weighted_stat_bpm(chunk_summaries).value,
              has_key |-> FALSE,
              key     |-> [root |-> 0, mode |-> "Major"],
              key_confidence |-> -1,
              key_dispersion_semitones |-> -1,
              key_modulating |-> FALSE]
        ELSE [bpm     |-> _weighted_stat_bpm(chunk_summaries).value,
              has_key |-> TRUE,
              key     |-> best.k,
              key_confidence |-> IF IsModulating(dispersion)
                                 THEN Min2(share, KEY_MODULATING_CONFIDENCE_CAP)
                                 ELSE share,
              key_dispersion_semitones |-> dispersion,
              key_modulating |-> IsModulating(dispersion)]

merge_chunk_consensus(res, consensus) ==
    [res EXCEPT !.bpm = consensus.bpm,
                !.key = IF consensus.has_key THEN consensus.key ELSE res.key,
                !.key_confidence =
                    IF consensus.key_confidence = -1 THEN res.key_confidence
                    ELSE IF consensus.key_modulating
                    THEN Min2(Min2(res.key_confidence, consensus.key_confidence),
                              KEY_MODULATING_CONFIDENCE_CAP)
                    ELSE Max2(res.key_confidence, consensus.key_confidence),
                !.key_dispersion_semitones =
                    IF consensus.key_dispersion_semitones # -1
                    THEN consensus.key_dispersion_semitones
                    ELSE res.key_dispersion_semitones,
                !.key_modulating = res.key_modulating \/ consensus.key_modulating]

attach_chunk_analysis(res, chunk_summaries) ==
    IF chunk_summaries = <<>> THEN res
    ELSE merge_chunk_consensus(res, build_chunk_consensus(chunk_summaries))

\* a whole-track result: key_modulating and key_dispersion_semitones are
\* not set before the merge (FALSE, -1)
TrackResult(bpm, root, conf) ==
    [bpm |-> bpm, key |-> [root |-> root, mode |-> "Major"],
     key_confidence |-> conf, key_modulating |-> FALSE,
     key_dispersion_semitones |-> -1]

ChunkTracks == {TrackResult(Bpm(90), 0, 30), TrackResult(Bpm(120), 0, 70)}

\* what perform_audio_analysis may report for one window
WindowResult(b, k, e) ==
    [bpm |-> Bpm(b), key_index |-> k, key_mode |-> "major",
     key_confidence |-> 80, energy |-> e]

WindowInputs ==
    {WindowResult(90, 0, 2), WindowResult(90, 0, 100), WindowResult(120, 0, 100),
     WindowResult(120, 3, 100), WindowResult(90, 6, 100), WindowResult(120, 6, 2)}

WindowSpeeds == {"normal", "slow", "timeout"}

\* attach_chunk_analysis enters compute_chunk_summaries: n is the number of
\* windows the range() loop yields, 0 when should_run_chunk_analysis is
\* false, otherwise at least the two windows of the shortest eligible track
ChunkStart(trk, n) ==
    /\ cpc = "idle"
    /\ track' = trk
    /\ merged' = trk
    /\ summaries' = <<>>
    /\ windowsLeft' = n
    /\ slowChunks' = 0
    /\ truncated' = FALSE
    /\ speeds' = <<>>
    /\ cpc' = IF n = 0 THEN "aggregate" ELSE "loop"
    /\ UNCHANGED <<calVars, anaVars, procVars, fnVars>>

\* consecutive_slow_chunks after a window that did not time out
NextSlowCountNoReset(speed, slow) == IF speed = "slow" THEN slow + 1 ELSE slow

NextSlowCount(speed, slow) == IF speed = "slow" THEN slow + 1 ELSE 0

\* one pass of the for loop
ChunkWindow(w, speed) ==
    /\ cpc = "loop"
    /\ IF Len(summaries) >= MAX_CHUNK_BATCHES
         THEN /\ truncated' = TRUE
              /\ cpc' = "aggregate"
              /\ UNCHANGED <<summaries, windowsLeft, slowChunks, speeds>>
       ELSE IF speed = "timeout"
         THEN /\ truncated' = TRUE
              /\ cpc' = "aggregate"
              /\ speeds' = Append(speeds, speed)
              /\ UNCHANGED <<summaries, windowsLeft, slowChunks>>
       ELSE IF speed = "slow" /\ NextSlowCount(speed, slowChunks) >= MAX_SLOW_CHUNKS
         THEN /\ truncated' = TRUE
              /\ slowChunks' = NextSlowCount(speed, slowChunks)
              /\ cpc' = "aggregate"
              /\ speeds' = Append(speeds, speed)
              /\ UNCHANGED <<summaries, windowsLeft>>
       ELSE /\ slowChunks' = NextSlowCount(speed, slowChunks)
            /\ summaries' = Append(summaries,
                   [bpm |-> w.bpm, key_index |-> w.key_index,
                    key_mode |-> w.key_mode, key_confidence |-> w.key_confidence,
                    energy |-> w.energy,
                    energy_weight |-> Max2(5, Min2(150, w.energy))])
            /\ windowsLeft' = windowsLeft - 1
            /\ speeds' = Append(speeds, speed)
            /\ cpc' = IF windowsLeft = 1 THEN "aggregate" ELSE "loop"
            /\ UNCHANGED truncated
    /\ UNCHANGED <<track, merged>>
    /\ UNCHANGED <<calVars, anaVars, procVars, fnVars>>

\* back in attach_chunk_analysis: consensus and merge
ChunkAttach ==
    /\ cpc = "aggregate"
    /\ merged' = attach_chunk_analysis(track, summaries)
    /\ cpc' = "done"
    /\ UNCHANGED <<track, summaries, windowsLeft, slowChunks, truncated, speeds>>
    /\ UNCHANGED <<calVars, anaVars, procVars, fnVars>>

ChunkReturn ==
    /\ cpc = "done"
    /\ cpc' = "idle"
    /\ UNCHANGED <<track, summaries, windowsLeft, slowChunks, truncated, speeds,
                   merged>>
    /\ UNCHANGED <<calVars, anaVars, procVars, fnVars>>

NextChunk ==
    \/ \E trk \in ChunkTracks, n \in {0} \cup 2..MaxWindows : ChunkStart(trk, n)
    \/ \E w \in WindowInputs, speed \in WindowSpeeds : ChunkWindow(w, speed)
    \/ ChunkAttach
    \/ ChunkReturn

InitChunk == CalIdle /\ AnaInit /\ ProcIdle /\ ChunkIdle /\ FnIdle

SpecChunk == InitChunk /\ [][NextChunk]_vars

\* the energy weight of the windows whose bpm is below v, above v, or of
\* all windows
RECURSIVE WeightWhere(_, _, _, _)
WeightWhere(chunk_summaries, v, side, i) ==
    IF i > Len(chunk_summaries) THEN 0
    ELSE (IF \/ side = "all"
             \/ (side = "below" /\ chunk_summaries[i].bpm < v)
             \/ (side = "above" /\ chunk_summaries[i].bpm > v)
          THEN chunk_summaries[i].energy_weight ELSE 0)
         + WeightWhere(chunk_summaries, v, side, i + 1)

\* v is a weighted median: the windows below it carry at most half of the
\* total weight, and so do the windows above it
IsWeightedMedian(v, chunk_summaries) ==
    /\ 2 * WeightWhere(chunk_summaries, v, "below", 1)
           <= WeightWhere(chunk_summaries, v, "all", 1)
    /\ 2 * WeightWhere(chunk_summaries, v, "above", 1)
           <= WeightWhere(chunk_summaries, v, "all", 1)

\* C9 as stated: the consensus bpm merged into the result is a weighted
\* median of the windows' bpm values under their clamped energy weights.
C9_ConsensusIsWeightedMedian ==
    (cpc = "done" /\ summaries # <<>>) => IsWeightedMedian(merged.bpm, summaries)

\* C10 as stated: with no window the result is returned unchanged, and with
\* a single analysed window the whole-track bpm and key survive the merge.
C10_SingleWindowNeverReplaces ==
    cpc = "done" =>
        /\ Len(summaries) = 0 => merged = track
        /\ Len(summaries) = 1 => (merged.bpm = track.bpm /\ merged.key = track.key)

\* window i of the run ends the loop: it took more than the absolute
\* timeout, or it is the second of two consecutive over-budget windows
AbortsAt(sp, i) ==
    \/ sp[i] = "timeout"
    \/ (i >= 2 /\ sp[i] = "slow" /\ sp[i - 1] = "slow")

\* C11: a window over the absolute timeout, or the second of two consecutive
\* over-budget windows, is the last window analysed, its summary is dropped
\* and compute_chunk_summaries reports truncated; no other window ends the
\* loop early, so over-budget windows separated by a normal one are all kept.
C11_SlowWindowAbort ==
    /\ \A i \in 1..(Len(speeds) - 1) : ~AbortsAt(speeds, i)
    /\ (speeds # <<>> /\ AbortsAt(speeds, Len(speeds))) =>
           /\ cpc # "loop"
           /\ truncated
           /\ Len(summaries) = Len(speeds) - 1
    /\ (speeds = <<>> \/ ~AbortsAt(speeds, Len(speeds))) =>
           /\ ~truncated
           /\ Len(summaries) = Len(speeds)

\* an over-budget window, a normal one and another over-budget one: the run
\* completes with all three windows
C11_Witness ==
    /\ cpc = "done"
    /\ speeds = <<"slow", "normal", "slow">>
    /\ Len(summaries) = 3
    /\ ~truncated

\* the vote weight the windows give to one root
RECURSIVE RootWeight(_, _, _)
RootWeight(entries, root, i) ==
    IF i > Len(entries) THEN 0
    ELSE (IF entries[i].root = root THEN entries[i].weight ELSE 0)
         + RootWeight(entries, root, i + 1)

WindowRoots(chunk_summaries) ==
    {chunk_summaries[i].key_index % 12 : i \in 1..Len(chunk_summaries)}

\* the windows vote for two roots six semitones apart, with equal weight
EvenTritoneSplit(chunk_summaries) ==
    \E a \in 0..5 :
        /\ WindowRoots(chunk_summaries) = {a, a + 6}
        /\ RootWeight(_key_entries(chunk_summaries, 1), a, 1)
               = RootWeight(_key_entries(chunk_summaries, 1), a + 6, 1)

\* C12: when all windows report one root the consensus has key dispersion 0
\* and the merged result is not key_modulating; when the vote weight is
\* split evenly between two roots a tritone apart the dispersion is above 3
\* semitones, key_modulating is set, and the key confidence of the
\* consensus and of the merged result is at most 0.45.
C12_KeyDispersion ==
    (cpc = "done" /\ summaries # <<>>) =>
        /\ Cardinality(WindowRoots(summaries)) = 1 =>
               /\ build_chunk_consensus(summaries).key_dispersion_semitones = 0
               /\ ~build_chunk_consensus(summaries).key_modulating
               /\ merged.key_dispersion_semitones = 0
               /\ ~merged.key_modulating
        /\ EvenTritoneSplit(summaries) =>
               /\ build_chunk_consensus(summaries).key_dispersion_semitones > 300
               /\ build_chunk_consensus(summaries).key_modulating
               /\ build_chunk_consensus(summaries).key_confidence <= 45
               /\ merged.key_dispersion_semitones > 300
               /\ merged.key_modulating
               /\ merged.key_confidence <= 45

\* a track of key confidence 0.7 whose windows split evenly between C and
\* F sharp comes out modulating with confidence 0.45
C12_Witness ==
    /\ cpc = "done"
    /\ Len(summaries) = 2
    /\ EvenTritoneSplit(summaries)
    /\ track.key_confidence = 70
    /\ merged.key_modulating
    /\ merged.key_confidence = 45
    /\ merged.key_dispersion_semitones = 1230

(***************************************************************************)
(* Tempo estimator: backend/analysis/tempo_detection.py and the guardrail  *)
(* of backend/analysis/pipeline_core.py.  Tempi are in 1/10000 BPM, scores *)
(* and confidences in 1/10000, factors and onset separations in            *)
(* hundredths, the early RMS energy in percent; -1 stands for None.        *)
(* Products are truncated to the unit.                                      *)
(***************************************************************************)
T(x) == 10000 * x

Scale(bpm, factor) == (bpm * factor) \div 100

ClampScore(value) == Max2(0, Min2(10000, value))

ALIAS_FACTORS == <<50, 100, 200>>

MIN_ALIAS_BPM == 200000

MAX_ALIAS_BPM == 2800000

ANALYSIS_SAMPLE_RATE == 12000

ANALYSIS_HOP_LENGTH == 512

\* 10000 * exp(-k / 15) for k = 0..140 BPM; smaller beyond
EXP_DECAY ==
    <<10000, 9355, 8752, 8187, 7659, 7165, 6703, 6271, 5866, 5488, 5134, 4803,
      4493, 4204, 3932, 3679, 3442, 3220, 3012, 2818, 2636, 2466, 2307, 2158,
      2019, 1889, 1767, 1653, 1546, 1447, 1353, 1266, 1184, 1108, 1037, 970,
      907, 849, 794, 743, 695, 650, 608, 569, 532, 498, 466, 436,
      408, 381, 357, 334, 312, 292, 273, 256, 239, 224, 209, 196,
      183, 171, 160, 150, 140, 131, 123, 115, 107, 101, 94, 88,
      82, 77, 72, 67, 63, 59, 55, 52, 48, 45, 42, 40,
      37, 35, 32, 30, 28, 26, 25, 23, 22, 20, 19, 18,
      17, 16, 15, 14, 13, 12, 11, 10, 10, 9, 9, 8,
      7, 7, 7, 6, 6, 5, 5, 5, 4, 4, 4, 4,
      3, 3, 3, 3, 3, 2, 2, 2, 2, 2, 2, 2,
      2, 1, 1, 1, 1, 1, 1, 1, 1>>

ExpDecay(diff) ==
    LET k == diff \div 10000
    IN  IF k + 1 > Len(EXP_DECAY) THEN 0 ELSE EXP_DECAY[k + 1]

MinOf(S) == CHOOSE x \in S : \A y \in S : x <= y

MaxOf(S) == CHOOSE x \in S : \A y \in S : x >= y

\* features/danceability.py: score of one alias of the tempo
AlignmentOfAlias(candidate) ==
    IF T(118) <= candidate /\ candidate <= T(128) THEN 10000
    ELSE IF T(105) <= candidate /\ candidate <= T(140) THEN 8500
    ELSE IF \/ (T(90) <= candidate /\ candidate <= T(105))
            \/ (T(140) <= candidate /\ candidate <= T(155)) THEN 7000
    ELSE Max2(2000, 10000 - Abs(candidate - T(125)) \div 100)

\* the alignment score of the tempo alone, without its aliases
AlignmentWithoutAliases(bpm) ==
    IF bpm <= 0 THEN 0 ELSE AlignmentOfAlias(bpm)

tempo_alignment_score(bpm) ==
    IF bpm <= 0 THEN 0
    ELSE LET aliases == {bpm \div 2, bpm * 2, bpm \div 4, bpm * 4}
             candidates == {bpm} \cup
                           {v \in aliases : T(60) <= v /\ v <= T(180)}
         IN  MaxOf({AlignmentOfAlias(c) : c \in candidates})

_tempo_similarity(candidate_bpm, reference_bpm) ==
    IF candidate_bpm <= 0 \/ reference_bpm <= 0 THEN 0
    ELSE LET alias_values == {Scale(reference_bpm, ALIAS_FACTORS[i]) :
                                  i \in 1..Len(ALIAS_FACTORS)} \ {0}
         IN  IF alias_values = {} THEN 0
             ELSE ClampScore(ExpDecay(
                      MinOf({Abs(candidate_bpm - v) : v \in alias_values})))

\* round(candidate, 3), kept in 1/10000 BPM; ties to even
RoundMilli(candidate) ==
    LET q == candidate \div 10
        r == candidate % 10
    IN  10 * (IF r > 5 \/ (r = 5 /\ q % 2 = 1) THEN q + 1 ELSE q)

\* an insertion that does not look for the key
AddCandidateUnkeyed(cands, candidate, factor) ==
    Append(cands, [key |-> RoundMilli(candidate), bpm |-> candidate,
                   sources |-> <<factor>>])

\* candidate_map.setdefault(key, ...) then entry["sources"].append(...)
AddCandidate(cands, candidate, factor) ==
    IF \E i \in 1..Len(cands) : cands[i].key = RoundMilli(candidate)
    THEN [i \in 1..Len(cands) |->
             IF cands[i].key = RoundMilli(candidate)
             THEN [cands[i] EXCEPT !.sources = Append(@, factor)]
             ELSE cands[i]]
    ELSE Append(cands, [key |-> RoundMilli(candidate), bpm |-> candidate,
                        sources |-> <<factor>>])

RECURSIVE DetectorCandidates(_, _, _)
DetectorCandidates(cands, bpm_value, i) ==
    IF i > Len(ALIAS_FACTORS) THEN cands
    ELSE LET candidate == Scale(bpm_value, ALIAS_FACTORS[i])
         IN  DetectorCandidates(
                 IF \/ candidate <= 0
                    \/ candidate < MIN_ALIAS_BPM
                    \/ candidate > MAX_ALIAS_BPM
                 THEN cands
                 ELSE AddCandidate(cands, candidate, ALIAS_FACTORS[i]),
                 bpm_value, i + 1)

_build_tempo_alias_candidates(percussive_bpm, onset_bpm) ==
    LET fromPercussive == IF percussive_bpm <= 0 THEN <<>>
                          ELSE DetectorCandidates(<<>>, percussive_bpm, 1)
    IN  IF onset_bpm <= 0 THEN fromPercussive
        ELSE DetectorCandidates(fromPercussive, onset_bpm, 1)

OctavePreference(bpm_value, is_short_clip) ==
    IF is_short_clip
    THEN IF T(80) <= bpm_value /\ bpm_value <= T(145) THEN 1000
         ELSE IF \/ (T(45) <= bpm_value /\ bpm_value < T(80))
                 \/ (T(145) < bpm_value /\ bpm_value <= T(180)) THEN 400
         ELSE IF bpm_value > T(180) THEN 600
         ELSE 0
    ELSE IF T(80) <= bpm_value /\ bpm_value <= T(145) THEN 1500
         ELSE IF \/ (T(40) <= bpm_value /\ bpm_value < T(80))
                 \/ (T(145) < bpm_value /\ bpm_value <= T(180)) THEN 500
         ELSE 0

AgreementBonus(bpm_value, percussive_bpm, onset_bpm, is_short_clip) ==
    IF /\ is_short_clip
       /\ percussive_bpm > 0
       /\ onset_bpm > 0
       /\ Abs(percussive_bpm - onset_bpm) <= T(3)
       /\ Abs(bpm_value - Max2(percussive_bpm, onset_bpm)) <= T(2)
    THEN 500 ELSE 0

AliasPenalty(entry, is_short_clip) ==
    IF /\ is_short_clip
       /\ \A i \in 1..Len(entry.sources) : Abs(entry.sources[i] - 100) > 5
    THEN 400 ELSE 0

ScoreEntry(entry, percussive_bpm, onset_bpm, plp_bpm, plp_peak, is_short_clip) ==
    LET bpm_value == entry.bpm
        alignment_weight == IF is_short_clip THEN 25 ELSE 40
        detector_weight == IF is_short_clip THEN 35 ELSE 30
        plp_weight == IF is_short_clip THEN 20 ELSE 15
        alignment == tempo_alignment_score(bpm_value)
        detector_support == Max2(_tempo_similarity(bpm_value, percussive_bpm),
                                 _tempo_similarity(bpm_value, onset_bpm))
        plp_similarity == IF plp_bpm > 0
                          THEN _tempo_similarity(bpm_value, plp_bpm) ELSE 0
        multi_source_bonus == Min2(Len(entry.sources) * 500, 1500)
        base_score == ClampScore(
              (alignment_weight * alignment + detector_weight * detector_support
                   + plp_weight * plp_similarity) \div 100
            + multi_source_bonus
            + OctavePreference(bpm_value, is_short_clip)
            + AgreementBonus(bpm_value, percussive_bpm, onset_bpm, is_short_clip)
            - AliasPenalty(entry, is_short_clip))
        confidence_boost == 7000 + (3 * ClampScore(plp_peak)) \div 10
        score == ClampScore((base_score * confidence_boost) \div 10000)
    IN  [bpm |-> bpm_value, score |-> score, confidence |-> score,
         sources |-> entry.sources]

ScoredAliases(candidates, percussive_bpm, onset_bpm, plp_bpm, plp_peak, is_short_clip) ==
    [i \in 1..Len(candidates) |->
        ScoreEntry(candidates[i], percussive_bpm, onset_bpm, plp_bpm,
                   plp_peak, is_short_clip)]

\* max(scored_candidates, key=score, default=None): the first entry of the
\* highest score, 0 (None) for an empty list
BestEntryIndex(scored) ==
    IF scored = <<>> THEN 0
    ELSE CHOOSE i \in 1..Len(scored) :
             /\ \A j \in 1..Len(scored) : scored[j].score <= scored[i].score
             /\ \A j \in 1..(i - 1) : scored[j].score < scored[i].score

_score_tempo_alias_candidates(candidates, percussive_bpm, onset_bpm, plp_bpm, plp_peak, is_short_clip) ==
    LET scored == ScoredAliases(candidates, percussive_bpm, onset_bpm,
                                plp_bpm, plp_peak, is_short_clip)
    IN  [best |-> BestEntryIndex(scored), scored |-> scored]

RECURSIVE InsertByBpm(_, _)
InsertByBpm(sorted, c) ==
    IF sorted = <<>> THEN <<c>>
    ELSE IF c.bpm < Head(sorted).bpm THEN <<c>> \o sorted
    ELSE <<Head(sorted)>> \o InsertByBpm(Tail(sorted), c)

RECURSIVE SortByBpm(_)
SortByBpm(cands) ==
    IF cands = <<>> THEN <<>>
    ELSE InsertByBpm(SortByBpm(SubSeq(cands, 1, Len(cands) - 1)),
                     cands[Len(cands)])

RECURSIVE SumScores(_, _)
SumScores(cands, n) ==
    IF n = 0 THEN 0 ELSE cands[n].score + SumScores(cands, n - 1)

_weighted_median(candidates) ==
    IF candidates = <<>> THEN -1
    ELSE LET sorted_cands == SortByBpm(candidates)
             total == SumScores(sorted_cands, Len(sorted_cands))
         IN  IF total <= 0 THEN -1
             ELSE sorted_cands[
                      MinOf({i \in 1..Len(sorted_cands) :
                                 2 * SumScores(sorted_cands, i) >= total})].bpm

\* round(tempo, 1) in tenths of a BPM, ties to even
RoundTenth(tempo) ==
    LET q == tempo \div 1000
        r == tempo % 1000
    IN  IF r > 500 \/ (r = 500 /\ q % 2 = 1) THEN q + 1 ELSE q

canonical_bpm ==
    {615, 947, 992, 1045, 1074, 1106, 1178, 1264, 1314, 1436, 1615}

\* analyze_tempo up to final_bpm = float(tempo): the selected tempo and its
\* confidence before any correction pass
SelectTempo(percussive_bpm, scoring) ==
    IF scoring.best = 0
    THEN [selected |-> FALSE, best_bpm |-> -1, tempo |-> percussive_bpm,
          bpm_confidence |-> 6000]
    ELSE LET best_alias == scoring.scored[scoring.best]
             tempo == best_alias.bpm
             bpm_confidence == best_alias.confidence
             alt_tempo == _weighted_median(scoring.scored)
             top_score == MaxOf({scoring.scored[i].score :
                                     i \in 1..Len(scoring.scored)})
             close_to_top == /\ Abs(tempo - alt_tempo) >= 15000
                             /\ 100 * bpm_confidence <= 95 * top_score
             is_canonical_lock == RoundTenth(tempo) \in canonical_bpm
         IN  [selected |-> TRUE, best_bpm |-> tempo,
              tempo |-> IF alt_tempo # -1 /\ (is_canonical_lock \/ close_to_top)
                        THEN alt_tempo ELSE tempo,
              bpm_confidence |-> bpm_confidence]

\* the onset envelope is abstracted to the band of tempi its periodicity
\* supports: on-beat over off-beat energy is env.on inside the band and
\* env.off outside
BeatIntervalFrames(test_bpm) ==
    (((60 * ANALYSIS_SAMPLE_RATE) \div 32) * 10000)
        \div ((ANALYSIS_HOP_LENGTH \div 32) * test_bpm)

_compute_onset_energy_separation(test_bpm, env) ==
    IF test_bpm <= 0 THEN -1
    ELSE IF env.frames = 0 THEN -1
    ELSE IF BeatIntervalFrames(test_bpm) < 2 THEN -1
    ELSE IF BeatIntervalFrames(test_bpm) \div 2 >= env.frames THEN -1
    ELSE IF env.lo <= test_bpm /\ test_bpm <= env.hi THEN env.on
    ELSE env.off

OrZero(separation) == IF separation = -1 THEN 0 ELSE separation

RECURSIVE IntermediateBest(_, _, _, _, _, _)
IntermediateBest(final_bpm, env, threshold, factors, best_bpm, best_separation) ==
    IF factors = <<>> THEN best_bpm
    ELSE LET test_bpm == Scale(final_bpm, Head(factors))
             test_separation == _compute_onset_energy_separation(test_bpm, env)
             better == /\ test_bpm <= MAX_ALIAS_BPM
                       /\ test_separation # -1
                       /\ 100 * test_separation > best_separation * threshold
         IN  IntermediateBest(final_bpm, env, threshold, Tail(factors),
                              IF better THEN test_bpm ELSE best_bpm,
                              IF better THEN test_separation ELSE best_separation)

IntermediateCorrection(final_bpm, energy_rms_early, env, threshold) ==
    IF /\ T(70) <= final_bpm /\ final_bpm <= T(80)
       /\ energy_rms_early > 65
       /\ env.frames > 0
    THEN LET best == IntermediateBest(final_bpm, env, threshold, <<120, 125>>, -1,
                         OrZero(_compute_onset_energy_separation(final_bpm, env)))
         IN  IF best # -1 THEN best ELSE final_bpm
    ELSE final_bpm

_weighted_separation(test_bpm, separation) ==
    separation * (7000 + (3 * tempo_alignment_score(test_bpm)) \div 10)

RECURSIVE MidTempoBest(_, _, _, _, _)
MidTempoBest(final_bpm, env, factors, best_factor, best_score) ==
    IF factors = <<>> THEN best_factor
    ELSE LET test_bpm == Scale(final_bpm, Head(factors))
             weighted_score == _weighted_separation(test_bpm,
                 OrZero(_compute_onset_energy_separation(test_bpm, env)))
             better == /\ ~(test_bpm > MAX_ALIAS_BPM \/ test_bpm > T(152))
                       /\ 100 * weighted_score > best_score * 120
         IN  MidTempoBest(final_bpm, env, Tail(factors),
                          IF better THEN Head(factors) ELSE best_factor,
                          IF better THEN weighted_score ELSE best_score)

MidTempoCorrection(t, is_short_clip, env) ==
    IF /\ is_short_clip
       /\ T(85) <= t.bpm /\ t.bpm <= T(110)
       /\ env.frames > 0
       /\ t.bpm_confidence < 9000
    THEN LET best_factor == MidTempoBest(t.bpm, env, <<150, 155>>, -1,
                 _weighted_separation(t.bpm,
                     OrZero(_compute_onset_energy_separation(t.bpm, env))))
         IN  IF best_factor # -1
             THEN [bpm |-> Scale(t.bpm, best_factor),
                   bpm_confidence |-> (t.bpm_confidence * 95) \div 100]
             ELSE t
    ELSE t

RECURSIVE ExtendedBest(_, _, _, _, _, _)
ExtendedBest(final_bpm, env, threshold, factors, best_bpm, best_separation) ==
    IF factors = <<>> THEN best_bpm
    ELSE LET test_bpm == Scale(final_bpm, Head(factors))
             test_separation ==
                 OrZero(_compute_onset_energy_separation(test_bpm, env))
             better == /\ ~(test_bpm < T(40) \/ test_bpm > T(250))
                       /\ 100 * test_separation > best_separation * threshold
         IN  ExtendedBest(final_bpm, env, threshold, Tail(factors),
                          IF better THEN test_bpm ELSE best_bpm,
                          IF better THEN test_separation ELSE best_separation)

ExtendedOctaveCorrection(t, is_short_clip, skip_onset_validation, env) ==
    IF is_short_clip /\ skip_onset_validation /\ env.frames > 0
    THEN LET high_tempo_threshold == IF is_short_clip THEN T(160) ELSE T(170)
             low_tempo_threshold == IF is_short_clip THEN T(90) ELSE T(85)
             improvement_threshold_ext ==
                 IF t.bpm > high_tempo_threshold \/ t.bpm < low_tempo_threshold
                 THEN 115 ELSE 130
             test_factors ==
                 IF t.bpm > high_tempo_threshold THEN <<50, 67, 75>>
                 ELSE IF t.bpm < low_tempo_threshold THEN <<200, 150, 133>>
                 ELSE <<>>
             best_bpm == ExtendedBest(t.bpm, env, improvement_threshold_ext,
                             test_factors, -1,
                             OrZero(_compute_onset_energy_separation(t.bpm, env)))
         IN  IF best_bpm # -1 /\ best_bpm # t.bpm
             THEN [bpm |-> best_bpm,
                   bpm_confidence |-> (t.bpm_confidence * 90) \div 100]
             ELSE t
    ELSE t

_octave_preference_boost(test_bpm) ==
    IF T(80) <= test_bpm /\ test_bpm <= T(140) THEN 140
    ELSE IF \/ (T(40) <= test_bpm /\ test_bpm < T(80))
            \/ (T(140) < test_bpm /\ test_bpm <= T(180)) THEN 110
    ELSE 90

RECURSIVE ValidateBest(_, _, _, _)
ValidateBest(bpm, env, test_bpms, best) ==
    IF test_bpms = <<>> THEN best
    ELSE LET test_bpm == Head(test_bpms)
             separation == _compute_onset_energy_separation(test_bpm, env)
             score == separation * _octave_preference_boost(test_bpm)
             better == /\ ~(Abs(test_bpm - bpm) < 1000)
                       /\ separation # -1
                       /\ 100 * score > best.score * 110
         IN  ValidateBest(bpm, env, Tail(test_bpms),
                 IF better
                 THEN [bpm |-> test_bpm, separation |-> separation,
                       score |-> score]
                 ELSE best)

\* the octave validation without the alias bounds of lines 250 and 252
ValidateOctaveUnbounded(bpm, env) ==
    IF env.frames = 0 THEN [bpm |-> bpm, separation |-> 0]
    ELSE LET best_separation ==
                 OrZero(_compute_onset_energy_separation(bpm, env))
             best == ValidateBest(bpm, env, <<bpm, bpm \div 2, bpm * 2>>,
                         [bpm |-> bpm, separation |-> best_separation,
                          score |-> best_separation
                                        * _octave_preference_boost(bpm)])
         IN  [bpm |-> best.bpm, separation |-> Max2(0, best.separation)]

_validate_octave_with_onset_energy(bpm, env) ==
    IF env.frames = 0 THEN [bpm |-> bpm, separation |-> 0]
    ELSE LET half_bpm == bpm \div 2
             double_bpm == bpm * 2
             test_bpms == <<bpm>>
                 \o (IF half_bpm >= MIN_ALIAS_BPM THEN <<half_bpm>> ELSE <<>>)
                 \o (IF double_bpm <= MAX_ALIAS_BPM THEN <<double_bpm>> ELSE <<>>)
             best_separation ==
                 OrZero(_compute_onset_energy_separation(bpm, env))
             best == ValidateBest(bpm, env, test_bpms,
                         [bpm |-> bpm, separation |-> best_separation,
                          score |-> best_separation
                                        * _octave_preference_boost(bpm)])
         IN  [bpm |-> best.bpm, separation |-> Max2(0, best.separation)]

OnsetValidation(t, skip_onset_validation, env) ==
    IF ~skip_onset_validation /\ env.frames > 0
    THEN LET validated == _validate_octave_with_onset_energy(t.bpm, env)
         IN  IF validated.bpm # t.bpm
             THEN [bpm |-> validated.bpm,
                   bpm_confidence |->
                       (t.bpm_confidence
                            * ClampScore(8500 + 15 * validated.separation))
                           \div 10000]
             ELSE t
    ELSE t

\* beats = -1: beat_track found no beat; otherwise the beat consistency
BlendBeatConsistency(bpm_confidence, beats) ==
    ClampScore(IF beats # -1
                  THEN (6 * bpm_confidence + 4 * beats) \div 10
                  ELSE bpm_confidence)

use_onset_validation(is_short_clip) == ~is_short_clip

intermediate_correction_threshold(is_short_clip) == 150

analyze_tempo(in) ==
    LET alias_candidates ==
            _build_tempo_alias_candidates(in.percussive, in.onset)
        scoring == _score_tempo_alias_candidates(alias_candidates,
                       in.percussive, in.onset, in.plp_bpm, in.plp_peak,
                       in.is_short_clip)
        chosen == SelectTempo(in.percussive, scoring)
        intermediate ==
            [bpm |-> IntermediateCorrection(chosen.tempo, in.energy, in.env,
                         intermediate_correction_threshold(in.is_short_clip)),
             bpm_confidence |-> chosen.bpm_confidence]
        might_be_slow_ballad == /\ T(60) <= intermediate.bpm
                                /\ intermediate.bpm <= T(85)
                                /\ intermediate.bpm * 2 > T(105)
                                /\ in.energy < 70
        skip_onset_validation ==
            might_be_slow_ballad \/ ~use_onset_validation(in.is_short_clip)
        mid == MidTempoCorrection(intermediate, in.is_short_clip, in.env)
        extended == ExtendedOctaveCorrection(mid, in.is_short_clip,
                                             skip_onset_validation, in.env)
        validated == OnsetValidation(extended, skip_onset_validation, in.env)
    IN  [alias_candidates |-> alias_candidates,
         scored_aliases |-> scoring.scored,
         selected |-> chosen.selected,
         best_alias_bpm |-> chosen.best_bpm,
         passes |-> <<chosen.tempo, intermediate.bpm, mid.bpm, extended.bpm,
                      validated.bpm>>,
         bpm |-> validated.bpm,
         bpm_confidence |-> BlendBeatConsistency(validated.bpm_confidence,
                                                 in.beats)]

\* perform_audio_analysis, phase 4: the extreme-tempo guardrail
TempoGuardrail(final_bpm) ==
    IF final_bpm < T(60) \/ final_bpm > T(180)
    THEN LET test_bpm == IF final_bpm < T(60) THEN final_bpm * 2
                         ELSE final_bpm \div 2
         IN  IF /\ T(20) <= test_bpm /\ test_bpm <= T(280)
                /\ tempo_alignment_score(test_bpm)
                       > tempo_alignment_score(final_bpm) + 1500
             THEN test_bpm ELSE final_bpm
    ELSE final_bpm

NoEnvelope == [frames |-> 0, lo |-> 0, hi |-> 0, on |-> 0, off |-> 0]

Envelope(lo, hi) ==
    [frames |-> 1000, lo |-> T(lo), hi |-> T(hi), on |-> 300, off |-> 100]

EnvelopeInputs ==
    {NoEnvelope, Envelope(0, 0), Envelope(30, 40), Envelope(80, 90),
     Envelope(90, 100), Envelope(110, 120), Envelope(145, 155),
     Envelope(290, 310)}

TempoInputs ==
    {[percussive |-> p, onset |-> o, plp_bpm |-> q, plp_peak |-> k,
      is_short_clip |-> s, energy |-> e, env |-> v, beats |-> b] :
        p \in {0, T(36), T(75), T(99) + 2500, T(107) + 4000, T(170), T(300)},
        o \in {0, T(50), T(76), T(99) + 2504, T(99) + 2506, T(100), T(150)},
        q \in {0, T(100)}, k \in {0, 8000}, s \in BOOLEAN,
        e \in {50, 80}, v \in EnvelopeInputs, b \in {-1, 0, 10000}}

InitTempo ==
    /\ CalIdle /\ AnaInit /\ ProcIdle /\ ChunkIdle
    /\ fnIn \in TempoInputs
    /\ fnOut = <<>>
    /\ fnStage = "input"

TempoAnalyze ==
    /\ fnStage = "input"
    /\ fnOut' = analyze_tempo(fnIn)
    /\ fnStage' = "tempo"
    /\ UNCHANGED <<fnIn, calVars, anaVars, procVars, chunkVars>>

TempoGuard ==
    /\ fnStage = "tempo"
    /\ fnOut' = [fnOut EXCEPT !.bpm = TempoGuardrail(fnOut.bpm)]
    /\ fnStage' = "guarded"
    /\ UNCHANGED <<fnIn, calVars, anaVars, procVars, chunkVars>>

SpecTempo == InitTempo /\ [][TempoAnalyze \/ TempoGuard]_vars

\* C13: with an empty candidate pool the tempo estimator returns BPM 0 with
\* confidence 0 and no correction pass or guardrail changes the BPM.
C13_SilentTempoZeroConfidence ==
    (fnStage \in {"tempo", "guarded"} /\ fnOut.alias_candidates = <<>>) =>
        /\ fnOut.bpm = 0
        /\ fnOut.bpm_confidence = 0
        /\ \A i \in 1..Len(fnOut.passes) : fnOut.passes[i] = fnIn.percussive

\* C21: for any pair of raw detector tempos every candidate of the
\* alias-expanded pool has 20 <= bpm <= 280, no two candidates of the pool
\* have the same BPM, and the confidence analyze_tempo returns is in [0,1].
C21_PoolBoundedAndDistinct ==
    fnStage \in {"tempo", "guarded"} =>
        /\ \A i \in 1..Len(fnOut.alias_candidates) :
               /\ MIN_ALIAS_BPM <= fnOut.alias_candidates[i].bpm
               /\ fnOut.alias_candidates[i].bpm <= MAX_ALIAS_BPM
        /\ \A i, j \in 1..Len(fnOut.alias_candidates) :
               i # j => fnOut.alias_candidates[i].bpm # fnOut.alias_candidates[j].bpm
        /\ 0 <= fnOut.bpm_confidence /\ fnOut.bpm_confidence <= 10000

\* detectors at 99.25 and 99.2504 BPM: the half and the unit alias of the
\* second fall on the keys of the first, its double does not, and the pool
\* holds four candidates; a candidate was selected and its confidence is
\* positive
C21_Witness ==
    /\ fnStage = "tempo"
    /\ fnIn.percussive = T(99) + 2500
    /\ fnIn.onset = T(99) + 2504
    /\ Len(fnOut.alias_candidates) = 4
    /\ \A i \in 1..2 : Len(fnOut.alias_candidates[i].sources) = 2
    /\ fnOut.selected
    /\ fnOut.bpm_confidence > 0

(***************************************************************************)
(* Front end of perform_audio_analysis (backend/analysis/pipeline_core.py) *)
(* on a buffer of `samples` samples at sample rate `sr`.  Durations are in *)
(* milliseconds.  Calls into the signal-processing library on a degenerate *)
(* buffer (no samples, or a sample rate that is not positive) either       *)
(* return or raise; the descriptor stages after key detection are not      *)
(* modelled.                                                                *)
(***************************************************************************)
\* Python's true division, truncated to the unit; the caller excludes b = 0
Quot(a, b) ==
    IF b > 0
    THEN (IF a >= 0 THEN a \div b ELSE -((-a) \div b))
    ELSE (IF a >= 0 THEN -(a \div (-b)) ELSE (-a) \div (-b))

\* int(0.5 * sr)
TrimSamples(sr) == Quot(sr, 2)

\* y[trim_samples:] if len(y) > trim_samples else y
TrimmedLength(samples, sr) ==
    IF samples > TrimSamples(sr)
    THEN (IF TrimSamples(sr) >= 0 THEN samples - TrimSamples(sr)
          ELSE Min2(samples, -TrimSamples(sr)))
    ELSE samples

\* get_adaptive_analysis_params: is_short_clip and tempo_window (ms)
IsShortDuration(signal_duration) == signal_duration < 1000 * SHORT_CLIP_THRESHOLD

TEMPO_WINDOW_SECONDS == 60

TempoWindow(signal_duration) ==
    IF IsShortDuration(signal_duration)
    THEN Min2(Quot(signal_duration * 8, 10), 30000)
    ELSE 1000 * TEMPO_WINDOW_SECONDS

Degenerate(size, sr) == size = 0 \/ sr <= 0

\* select_loudest_window: length of the tempo segment and the full_track flag
select_loudest_window(total_samples, sr, window_seconds) ==
    IF total_samples = 0 \/ sr <= 0 \/ window_seconds <= 0
    THEN [size |-> total_samples, full_track |-> TRUE]
    ELSE LET window_samples == (window_seconds * (sr \div 100)) \div 10
         IN  IF window_samples <= 0 \/ window_samples >= total_samples
             THEN [size |-> total_samples, full_track |-> TRUE]
             ELSE [size |-> window_samples, full_track |-> FALSE]

\* build_spectral_context: TRUE when a transform is cached; stft_ok is
\* whether librosa.stft returned
build_spectral_context(size, sr, stft_ok) ==
    IF size = 0 \/ sr <= 0 THEN FALSE ELSE stft_ok

FrontInputs ==
    {[samples |-> n, sr |-> s] :
        n \in {0, 6000, 120000, 720000}, s \in {-12000, 0, 12000, 44100}}

FrontRunning ==
    [status |-> "running", error |-> "none", signal_duration |-> 0,
     is_short_clip |-> FALSE, trimmed |-> 0, segment |-> 0,
     descriptor_ctx |-> FALSE, tempo_ctx |-> FALSE,
     bpm |-> 0, bpm_confidence |-> 0,
     key_index |-> 0, mode |-> "Major", key_confidence |-> 0]

InitFront ==
    /\ CalIdle /\ AnaInit /\ ProcIdle /\ ChunkIdle
    /\ fnIn \in FrontInputs
    /\ fnOut = FrontRunning
    /\ fnStage = "input"

\* signal_duration = len(y) / sr
FrontDuration ==
    /\ fnStage = "input"
    /\ IF fnIn.sr = 0
       THEN /\ fnOut' = [fnOut EXCEPT !.status = "raised",
                                      !.error = "ZeroDivisionError"]
            /\ fnStage' = "raised"
       ELSE LET signal_duration ==
                    Quot(fnIn.samples * 10, Quot(fnIn.sr, 100))
            IN  /\ fnOut' = [fnOut EXCEPT
                       !.signal_duration = signal_duration,
                       !.is_short_clip = IsShortDuration(signal_duration)]
                /\ fnStage' = "context"
    /\ UNCHANGED <<fnIn, calVars, anaVars, procVars, chunkVars>>

\* prepare_analysis_context
FrontContext ==
    /\ fnStage = "context"
    /\ \E stft_ok \in BOOLEAN, tempo_stft_ok \in BOOLEAN :
          LET trimmed == TrimmedLength(fnIn.samples, fnIn.sr)
              audio_duration == Quot(trimmed * 10, Quot(fnIn.sr, 100))
              tempo_window_seconds == TempoWindow(fnOut.signal_duration)
              skip_full_stft == audio_duration > tempo_window_seconds
              descriptor_ctx ==
                  /\ ~skip_full_stft
                  /\ build_spectral_context(trimmed, fnIn.sr, stft_ok)
              window == select_loudest_window(trimmed, fnIn.sr,
                                              tempo_window_seconds)
              tempo_ctx ==
                  IF window.full_track THEN descriptor_ctx
                  ELSE build_spectral_context(window.size, fnIn.sr,
                                              tempo_stft_ok)
          IN  fnOut' = [fnOut EXCEPT !.trimmed = trimmed,
                                     !.segment = window.size,
                                     !.descriptor_ctx = descriptor_ctx,
                                     !.tempo_ctx = tempo_ctx]
    /\ fnStage' = "tempo"
    /\ UNCHANGED <<fnIn, calVars, anaVars, procVars, chunkVars>>

FrontTempoInputs(is_short_clip, segment) ==
    {[percussive |-> p, onset |-> o, plp_bpm |-> 0, plp_peak |-> 0,
      is_short_clip |-> is_short_clip, energy |-> 50, env |-> v,
      beats |-> b] :
        p \in {0, T(100)}, o \in {0, T(100)},
        v \in IF segment = 0 THEN {NoEnvelope}
              ELSE {NoEnvelope, Envelope(0, 0)},
        b \in {-1, 10000}}

\* analyze_tempo and the guardrail; the decomposition and the onset
\* detectors are library calls on (tempo_segment, sr)
FrontTempo ==
    /\ fnStage = "tempo"
    /\ \/ /\ Degenerate(fnOut.segment, fnIn.sr)
          /\ fnOut' = [fnOut EXCEPT !.status = "raised",
                                    !.error = "ParameterError"]
          /\ fnStage' = "raised"
       \/ \E in \in FrontTempoInputs(fnOut.is_short_clip, fnOut.segment) :
             /\ fnOut' = [fnOut EXCEPT
                    !.bpm = TempoGuardrail(analyze_tempo(in).bpm),
                    !.bpm_confidence = analyze_tempo(in).bpm_confidence]
             /\ fnStage' = "key"
    /\ UNCHANGED <<fnIn, calVars, anaVars, procVars, chunkVars>>

\* detect_global_key on y_harmonic (or y): the zero-confidence default for
\* an empty buffer or a sample rate that is not positive
FrontKey ==
    /\ fnStage = "key"
    /\ IF Degenerate(fnOut.trimmed, fnIn.sr)
       THEN fnOut' = [fnOut EXCEPT !.status = "returned", !.key_index = 0,
                                   !.mode = "Major", !.key_confidence = 0]
       ELSE \E root \in {0, 7}, mode \in {"Major", "Minor"},
               conf \in {0, 80} :
                fnOut' = [fnOut EXCEPT !.status = "returned",
                                       !.key_index = root, !.mode = mode,
                                       !.key_confidence = conf]
    /\ fnStage' = "returned"
    /\ UNCHANGED <<fnIn, calVars, anaVars, procVars, chunkVars>>

NextFront == FrontDuration \/ FrontContext \/ FrontTempo \/ FrontKey

SpecFront == InitFront /\ [][NextFront]_vars

\* C14: perform_audio_analysis returns without raising for a buffer whose
\* sample rate is zero; here, that the duration computation of such a
\* buffer does not end in a ZeroDivisionError.
C14_ZeroRateReturns ==
    (fnIn.sr = 0 /\ fnStage # "input") => fnOut.error # "ZeroDivisionError"

(***************************************************************************)
(* The four loaders of backend/analysis/calibration.py on a rule file that *)
(* is missing or malformed, followed by the correction step that reads    *)
(* the rule set.  A file is                                                *)
(*   "missing"    absent,                                                  *)
(*   "not_json"   text json.load rejects,                                  *)
(*   "not_object" JSON whose top level is a list,                          *)
(*   "bad_entry"  a JSON object whose section has the right container but  *)
(*                one entry of the wrong type: a scaler with a string      *)
(*                slope on energy, a ridge model with a non-numeric        *)
(*                weight, a confusion target with a non-numeric            *)
(*                probability on C major, a BPM rule with a one-element    *)
(*                bpm_range,                                               *)
(*   "valid"      the generation-1 file of the tables above.               *)
(***************************************************************************)
FileContents == {"missing", "not_json", "not_object", "bad_entry", "valid"}

\* load_calibration_config, load_calibration_models, load_key_calibration
\* and load_bpm_calibration share one shape: the exists() test, then a try
\* block around json.load and data.get(section), then except Exception.
\* None of them looks inside an entry, so a bad entry is loaded as it is.
LoadRuleFile(tag, content) ==
    CASE content = "missing"    -> "empty"
      [] content = "not_json"   -> "empty"
      [] content = "not_object" -> "empty"
      [] content = "bad_entry"  -> "bad_entry"
      [] content = "valid"      -> "valid"

\* whether the correction step evaluates the bad entry, which raises
\* outside every try block of the step
ReachesBadEntry(tag, r) ==
    CASE tag = "scalers" -> TRUE
      [] tag = "models"  -> TRUE
      [] tag = "key"     -> /\ ~IsShortClipKey(r)
                            /\ r.key = [root |-> 0, mode |-> "major"]
      [] tag = "bpm"     -> ~IsShortClipBpm(r)

GenerationOf(tag, v) == [t \in Tags |-> IF t = tag THEN v ELSE 0]

ApplyLoaded(tag, rules, r) ==
    CASE rules = "empty" ->
             [raised |-> FALSE, r |-> RunHook(tag, GenerationOf(tag, 0), r)]
      [] rules = "valid" ->
             [raised |-> FALSE, r |-> RunHook(tag, GenerationOf(tag, 1), r)]
      [] rules = "bad_entry" ->
             [raised |-> ReachesBadEntry(tag, r), r |-> r]

LoadResultInputs ==
    {[RawResult(Bpm(b), d) EXCEPT !.key = [root |-> k, mode |-> "major"]] :
        b \in {72, 120}, d \in {0, 30, 200}, k \in {0, 7}}

InitLoad ==
    /\ CalIdle /\ AnaInit /\ ProcIdle /\ ChunkIdle
    /\ fnIn \in {[tag |-> t, content |-> c, r |-> r] :
                    t \in Tags, c \in FileContents, r \in LoadResultInputs}
    /\ fnOut = [rules |-> "unloaded", raised |-> FALSE, r |-> fnIn.r]
    /\ fnStage = "input"

LoadFile ==
    /\ fnStage = "input"
    /\ fnOut' = [fnOut EXCEPT !.rules = LoadRuleFile(fnIn.tag, fnIn.content)]
    /\ fnStage' = "loaded"
    /\ UNCHANGED <<fnIn, calVars, anaVars, procVars, chunkVars>>

ApplyStep ==
    /\ fnStage = "loaded"
    /\ fnOut' = [rules |-> fnOut.rules,
                 raised |-> ApplyLoaded(fnIn.tag, fnOut.rules, fnIn.r).raised,
                 r |-> ApplyLoaded(fnIn.tag, fnOut.rules, fnIn.r).r]
    /\ fnStage' = "applied"
    /\ UNCHANGED <<fnIn, calVars, anaVars, procVars, chunkVars>>

SpecLoad == InitLoad /\ [][LoadFile \/ ApplyStep]_vars

\* C15: a rule file that is missing or malformed leaves its rule set empty,
\* and the correction step that reads the rule set then returns the result
\* unchanged without raising.
C15_BadRuleFileIsNoOp ==
    (fnStage \in {"loaded", "applied"} /\ fnIn.content # "valid") =>
        /\ fnOut.rules = "empty"
        /\ fnStage = "applied" => (~fnOut.raised /\ fnOut.r = fnIn.r)

\* C16: within one process_audio_bytes call an analysis is started at most
\* twice: the pool job only at the executor step with nothing started yet,
\* the inline run only once and only when no pool job was submitted or the
\* pool job failed.  A wait that is left while its job is still running is
\* left by the timeout: no analysis is started after it and the call ends
\* with the timeout failure, never with a result.
C16_NoRetryBeyondFallback ==
    [][/\ (job' = "running" /\ job # "running") =>
              (ppc = "get_executor" /\ job = "none" /\ inlineJob = "none")
       /\ (inlineJob' = "running" /\ inlineJob # "running") =>
              (/\ ppc = "inline_start"
               /\ inlineJob = "none"
               /\ job \in {"none", "failed"}
               /\ outcome = "none")
       /\ (ppc = "wait_pool" /\ job = "running" /\ ppc' # "wait_pool") =>
              (ppc' = "returned" /\ outcome' = "timeout" /\ inlineJob' = "none")
       /\ (ppc = "wait_thread" /\ inlineJob = "running" /\ ppc' # "wait_thread") =>
              ppc' = "shutdown_wait"
       /\ (ppc = "shutdown_wait" /\ ppc' # "shutdown_wait") =>
              (ppc' = "returned" /\ outcome' = "timeout")
       /\ (ppc = "returned") => (outcome' = "none" \/ outcome' = outcome)
      ]_vars

\* the pool job failed, the inline fallback ran once and gave the result
C16_Witness ==
    /\ ppc = "returned"
    /\ job = "failed"
    /\ inlineJob = "finished"
    /\ outcome = "result"

\* C17: apply_calibration_layer leaves bpm unchanged, whatever the BPM
\* scaler rule, when the result is a short clip and also when the raw BPM
\* lies in the sweet spot of 138 to 152 BPM, for clips of any duration.
C17_ShortOrSweetSpotUntouched ==
    (/\ fnStage = "scaled"
     /\ \/ IsShortClipScaler(fnIn.r)
        \/ (Bpm(138) <= fnIn.r.bpm /\ fnIn.r.bpm <= Bpm(152))) =>
        fnOut.bpm = fnIn.r.bpm

(***************************************************************************)
(* The key confusion remap as a function of the confusion table and of    *)
(* the candidates carried in the result.  Keys are canonical ids: root for *)
(* major, 12 + root for minor, 24 + root for mixolydian.                   *)
(***************************************************************************)
ConfusionTable(rows) ==
    [present |-> TRUE,
     targets |-> [k \in KeyIds |-> IF k \in DOMAIN rows THEN rows[k] ELSE <<>>],
     raw_accuracy |-> 50]

Target(kid, probability) == [canonical |-> kid, probability |-> probability]

KeyTableInputs ==
    {EmptyKeyRules,
     ConfusionTable(0 :> <<Target(0, 60)>>),
     ConfusionTable(0 :> <<Target(0, 60), Target(7, 40)>>
                    @@ 7 :> <<Target(2, 100)>> @@ 5 :> <<Target(2, 100)>>),
     ConfusionTable(0 :> <<Target(7, 50), Target(0, 50)>>),
     ConfusionTable(0 :> <<Target(7, 60), Target(0, 30)>>
                    @@ 7 :> <<Target(7, 100)>>),
     ConfusionTable(0 :> <<Target(canonical_key_id(7, "mixolydian"), 70),
                           Target(0, 30)>>)}

Candidate(root, mode, score) == [root |-> root, mode |-> mode, score |-> score]

KeyScoreInputs ==
    {<<>>,
     <<Candidate(0, "major", 90)>>,
     <<Candidate(12, "Major", 90), Candidate(7, "major", 0)>>,
     <<Candidate(0, "major", 90), Candidate(7, "major", 80)>>,
     <<Candidate(7, "major", 90), Candidate(0, "major", 50)>>,
     <<Candidate(0, "major", 90), Candidate(7, "major", 50),
       Candidate(5, "major", 50)>>}

KeyResultInputs ==
    {[RawResult(Bpm(120), d) EXCEPT !.key = [root |-> k, mode |-> "major"],
                                    !.key_scores = sc,
                                    !.key_confidence = c] :
        d \in {0, 30, 200}, k \in {0, 7}, sc \in KeyScoreInputs, c \in {0, 70}}

InitKeyCal ==
    /\ CalIdle /\ AnaInit /\ ProcIdle /\ ChunkIdle
    /\ fnIn \in {[krules |-> t, r |-> r] :
                    t \in KeyTableInputs, r \in KeyResultInputs}
    /\ fnOut = <<>>
    /\ fnStage = "input"

KeyCalApply ==
    /\ fnStage = "input"
    /\ fnOut' = apply_key_calibration(fnIn.krules, fnIn.r)
    /\ fnStage' = "remapped"
    /\ UNCHANGED <<fnIn, calVars, anaVars, procVars, chunkVars>>

SpecKeyCal == InitKeyCal /\ [][KeyCalApply]_vars

\* the first target of greatest probability is the key itself, and its
\* probability is at least the residual
TopTargetIsSelf(krules, kid) ==
    LET targets == krules.targets[kid]
    IN  \E j \in 1..Len(targets) :
            /\ targets[j].canonical = kid
            /\ \A i \in 1..Len(targets) :
                   targets[i].probability <= targets[j].probability
            /\ \A i \in 1..(j - 1) :
                   targets[i].probability < targets[j].probability
            /\ targets[j].probability >= 100 - TotalProb(targets, 1)

RawKeyId(r) == canonical_key_id(r.key.root, r.key.mode)

\* C18 as stated: whenever the top target of the raw key is the raw key,
\* the remapped key is the raw key, whatever candidates the result carries.
C18_SelfTargetKeepsKey ==
    (fnStage = "remapped" /\ TopTargetIsSelf(fnIn.krules, RawKeyId(fnIn.r))) =>
        fnOut.key = fnIn.r.key

\* the candidates that vote are the raw key alone
OnlyRawKeyVotes(r) ==
    \A i \in 1..Len(ScoredCandidates(r.key_scores)) :
        /\ ScoredCandidates(r.key_scores)[i].root = r.key.root
        /\ ScoredCandidates(r.key_scores)[i].mode = r.key.mode

\* C18, amended: whenever the top target of the raw key is the raw key and
\* no candidate other than the raw key carries a positive score, the
\* remapped key is the raw key.
C18_SelfTargetKeepsSoleCandidate ==
    (/\ fnStage = "remapped"
     /\ TopTargetIsSelf(fnIn.krules, RawKeyId(fnIn.r))
     /\ OnlyRawKeyVotes(fnIn.r)) =>
        fnOut.key = fnIn.r.key

\* a full-length C major result whose only candidate is C major, remapped
\* through a table that sends C major to itself (0.6) and to G major (0.4)
C18_Witness ==
    /\ fnStage = "remapped"
    /\ fnIn.r.signal_duration = 200
    /\ fnIn.r.key = [root |-> 0, mode |-> "major"]
    /\ fnIn.r.key_scores = <<Candidate(0, "major", 90)>>
    /\ Len(fnIn.krules.targets[0]) = 2
    /\ TopTargetIsSelf(fnIn.krules, 0)
    /\ fnOut.key = fnIn.r.key
    /\ fnOut.key_confidence = 70

\* C19 (the remap): after apply_key_calibration the key of the result has
\* a root in 0..11 and a mode that is major or minor; no other mode label
\* reaches the result.
C19_RemappedKeyIsMajorOrMinor ==
    fnStage = "remapped" =>
        /\ fnOut.key.root \in 0..11
        /\ fnOut.key.mode \in {"major", "minor"}

(***************************************************************************)
(* Key detection: detect_global_key.  Template scores, confidences,        *)
(* chroma energies, support ratios and window dominance are held in        *)
(* thousandths; window weights are whole numbers.  A candidate of the      *)
(* external estimator is a sequence: <<>> for None, else one               *)
(* [root, mode, score].  The record k carries the locals of one call.      *)
(***************************************************************************)
ClampMilli(v) == Max2(0, Min2(1000, v))

KEY_MODES == <<"Major", "Minor">>

\* KRUMHANSL_MAJOR and KRUMHANSL_MINOR divided by their norms
MAJOR_PROFILE == <<495, 174, 271, 182, 341, 319, 196, 404, 186, 285, 178, 224>>

MINOR_PROFILE == <<470, 199, 262, 400, 193, 262, 189, 353, 296, 200, 248, 236>>

_INTERVAL_OVERRIDE_STEPS == {2, 3, 4, 5, 7, 9, 10}

_DOMINANT_INTERVAL_STEPS == {5, 7}

_RUNNER_SCORE_MARGIN == 25

_MODE_BIAS_THRESHOLD == 80

_MODE_BIAS_CONF_LIMIT == 500

_WINDOW_SUPPORT_PROMOTION == 720

_WINDOW_SUPPORT_PROMOTION_SHORT == 780

_FINAL_SUPPORT_FLOOR == 500

_WINDOW_SUPPORT_DELTA == 180

_MODE_VOTE_THRESHOLD == 320

_CHROMA_PEAK_ENERGY_MARGIN == 75

_CHROMA_PEAK_SUPPORT_RATIO == 550

_CHROMA_PEAK_SUPPORT_GAP == 180

_EDM_STRICT_SCORE == 550

_EDM_RELAXED_SCORE == 420

_DOMINANT_OVERRIDE_SCORE == 550

_FIFTH_RECON_CHROMA_RATIO == 570

_FIFTH_RECON_SCORE_EPS == 40

_FIFTH_RUNNER_SCORE_EPS == 20

_ESSENTIA_TONIC_OVERRIDE_SCORE == 550

_ESSENTIA_TONIC_OVERRIDE_CONFIDENCE == 450

_MODE_RESCUE_SCORE == 580

_normalize_mode_label(mode_value) ==
    IF mode_value \in {"Minor", "minor"} THEN "Minor" ELSE "Major"

_interval_distance(candidate_root, reference_root) ==
    (candidate_root - reference_root) % 12

\* np.dot(np.roll(chroma, -root), profile)
RECURSIVE DotRolled(_, _, _, _)
DotRolled(chroma, profile, root, i) ==
    IF i > 12 THEN 0
    ELSE chroma[((i - 1 + root) % 12) + 1] * profile[i]
         + DotRolled(chroma, profile, root, i + 1)

TemplateScore(chroma, root, mode) ==
    DotRolled(chroma, IF mode = "Major" THEN MAJOR_PROFILE ELSE MINOR_PROFILE,
              root, 1) \div 1000

\* the 24 entries in the order the loops produce them, and the first entry
\* of greatest score
_score_chroma_profile(chroma) ==
    LET scores == [i \in 1..24 |->
                      [root  |-> (i - 1) \div 2,
                       mode  |-> KEY_MODES[((i - 1) % 2) + 1],
                       score |-> TemplateScore(chroma, (i - 1) \div 2,
                                               KEY_MODES[((i - 1) % 2) + 1])]]
        b == CHOOSE i \in 1..24 :
                 /\ \A j \in 1..24 : scores[j].score <= scores[i].score
                 /\ \A j \in 1..(i - 1) : scores[j].score < scores[i].score
    IN  [scores |-> scores, best |-> scores[b]]

RECURSIVE InsertByScore(_, _)
InsertByScore(sorted, e) ==
    IF sorted = <<>> THEN <<e>>
    ELSE IF Head(sorted).score >= e.score
         THEN <<Head(sorted)>> \o InsertByScore(Tail(sorted), e)
         ELSE <<e>> \o sorted

\* sorted(score_entries, key=score, reverse=True): stable
RECURSIVE SortedPrefix(_, _)
SortedPrefix(score_entries, n) ==
    IF n = 0 THEN <<>>
    ELSE InsertByScore(SortedPrefix(score_entries, n - 1), score_entries[n])

_sorted_candidates(score_entries) ==
    SortedPrefix(score_entries, Len(score_entries))

RECURSIVE VoteRootWeight(_, _, _)
VoteRootWeight(votes, root, i) ==
    IF i > Len(votes) THEN 0
    ELSE (IF votes[i].root % 12 = root /\ votes[i].weight > 0
          THEN votes[i].weight ELSE 0)
         + VoteRootWeight(votes, root, i + 1)

_root_weight_map(votes) == [r \in 0..11 |-> VoteRootWeight(votes, r, 1)]

_root_support_ratio(weight_map, target_root) ==
    LET best_weight == CHOOSE w \in {weight_map[r] : r \in 0..11} :
                           \A r \in 0..11 : weight_map[r] <= w
    IN  IF best_weight <= 0 THEN 0
        ELSE (1000 * weight_map[target_root % 12]) \div best_weight

RECURSIVE ModeWeight(_, _, _, _)
ModeWeight(votes, target_root, mode, i) ==
    IF i > Len(votes) THEN 0
    ELSE (IF /\ votes[i].root % 12 = target_root % 12
             /\ _normalize_mode_label(votes[i].mode) = mode
             /\ votes[i].weight > 0
          THEN votes[i].weight ELSE 0)
         + ModeWeight(votes, target_root, mode, i + 1)

_mode_vote_breakdown(votes, target_root) ==
    LET major == ModeWeight(votes, target_root, "Major", 1)
        minor == ModeWeight(votes, target_root, "Minor", 1)
    IN  [Major |-> major, Minor |-> minor, total_weight |-> major + minor]

_essentia_supports(candidate, target_root, target_mode, min_score) ==
    IF candidate = <<>> THEN FALSE
    ELSE IF ClampMilli(candidate[1].score) < min_score THEN FALSE
    ELSE /\ candidate[1].root % 12 = target_root % 12
         /\ _normalize_mode_label(candidate[1].mode) = target_mode

\* np.argmax: the first index of greatest energy
_chroma_peak_root(chroma) ==
    LET idx == CHOOSE i \in 0..11 :
                   /\ \A j \in 0..11 : chroma[j + 1] <= chroma[i + 1]
                   /\ \A j \in 0..(i - 1) : chroma[j + 1] < chroma[i + 1]
    IN  [root |-> idx, energy |-> chroma[idx + 1]]

\* the bias doubled, so that the half weight of the sixths stays whole
DoubledModeBias(chroma, root_index) ==
    2 * (chroma[((root_index + 4) % 12) + 1] - chroma[((root_index + 3) % 12) + 1])
    + (chroma[((root_index + 9) % 12) + 1] - chroma[((root_index + 8) % 12) + 1])

_mode_bias_from_chroma(chroma, root_index) ==
    LET d == DoubledModeBias(chroma, root_index)
    IN  IF d >= 0 THEN d \div 2 ELSE -((-d) \div 2)

_triad_energy(chroma, root_index, mode) ==
    LET root  == root_index % 12
        third == (root + (IF _normalize_mode_label(mode) = "Major" THEN 4 ELSE 3)) % 12
        fifth == (root + 7) % 12
    IN  chroma[root + 1] + chroma[third + 1] + chroma[fifth + 1]

RECURSIVE TotalWeight(_, _)
TotalWeight(votes, i) ==
    IF i > Len(votes) THEN 0 ELSE votes[i].weight + TotalWeight(votes, i + 1)

\* the dict _windowed_key_consensus returns for the per-key totals, given
\* sorted by weight; the empty list stands for the empty dict
_windowed_key_consensus(sorted_totals) ==
    [votes            |-> sorted_totals,
     best             |-> sorted_totals[1],
     runner_up_weight |-> IF Len(sorted_totals) > 1
                          THEN sorted_totals[2].weight ELSE 0,
     total_weight     |-> TotalWeight(sorted_totals, 1),
     dominance        |-> (1000 * sorted_totals[1].weight)
                              \div TotalWeight(sorted_totals, 1)]

\* an update that averages the running confidence with the value
ContributeAveraged(k, rule, value) ==
    [k EXCEPT !.final_confidence = (k.final_confidence + value) \div 2,
              !.contributed = Append(k.contributed,
                                     [rule |-> rule, value |-> value])]

\* final_confidence = max(final_confidence, value), the value kept on record
Contribute(k, rule, value) ==
    [k EXCEPT !.final_confidence = Max2(k.final_confidence, value),
              !.contributed = Append(k.contributed,
                                     [rule |-> rule, value |-> value])]

\* lines 64-129 and 279-316: the template fallback and the initial answer
KeyFallback(in) ==
    LET scored == _score_chroma_profile(in.chroma)
        window_votes == IF in.use_window_consensus THEN in.window_totals ELSE <<>>
    IN  [is_short_clip       |-> in.is_short_clip,
         chroma              |-> in.chroma,
         max_chroma          |-> _chroma_peak_root(in.chroma).energy,
         sorted_candidates   |-> _sorted_candidates(scored.scores),
         fallback_best_score |-> _sorted_candidates(scored.scores)[1].score,
         fallback_root       |-> scored.best.root,
         fallback_mode       |-> scored.best.mode,
         fallback_conf       |-> ClampMilli(scored.best.score),
         window_votes        |-> window_votes,
         window_dominance    |-> IF window_votes = <<>> THEN 0
                                 ELSE _windowed_key_consensus(window_votes).dominance,
         essentia_std_candidate |-> in.essentia_std_candidate,
         essentia_edm_candidate |-> in.essentia_edm_candidate,
         final_root          |-> scored.best.root,
         final_mode          |-> scored.best.mode,
         final_confidence    |-> ClampMilli(scored.best.score),
         key_source          |-> "librosa",
         locked_root         |-> FALSE,
         final_support_ratio |-> 0,
         contributed         |-> <<>>]

WindowSupport(k, root) == _root_support_ratio(_root_weight_map(k.window_votes), root)

\* lines 317-361: the window consensus override
WindowConsensusRule(k) ==
    LET after ==
          IF k.window_votes = <<>> THEN k
          ELSE
            LET meta        == _windowed_key_consensus(k.window_votes)
                dominance   == meta.dominance
                separation  == IF meta.total_weight > 0
                               THEN (1000 * (meta.best.weight - meta.runner_up_weight))
                                        \div meta.total_weight
                               ELSE 0
                window_root == meta.best.root % 12
                window_mode == meta.best.mode
                same_root   == window_root = k.final_root
                same_mode   == window_mode = k.final_mode
                is_fifth_related ==
                    ((window_root - k.fallback_root) % 12) \in {5, 7}
                min_dominance  == IF k.is_short_clip /\ is_fifth_related
                                  THEN 750 ELSE 650
                min_separation == IF k.is_short_clip /\ is_fifth_related
                                  THEN 200 ELSE 150
            IN  IF dominance >= 500 /\ (~same_root \/ ~same_mode)
                THEN IF separation >= min_separation \/ dominance >= min_dominance
                     THEN [Contribute(k, "window_consensus", Min2(990, dominance))
                              EXCEPT !.final_root = window_root,
                                     !.final_mode = window_mode,
                                     !.key_source = "window_consensus"]
                     ELSE k
                ELSE IF same_root /\ ~same_mode /\ separation >= 50
                     THEN [Contribute(k, "window_consensus", Min2(950, dominance))
                              EXCEPT !.final_mode = window_mode,
                                     !.key_source = "window_consensus"]
                     ELSE k
    IN  [after EXCEPT !.final_support_ratio = WindowSupport(after, after.final_root)]

\* lines 362-413: promotion of the runner-up template candidate
RunnerIntervalRule(k) ==
    LET runner_candidate == k.sorted_candidates[2]
        runner_score     == runner_candidate.score
        score_gap        == k.fallback_best_score - runner_score
        candidate_root   == runner_candidate.root % 12
        candidate_mode   == _normalize_mode_label(runner_candidate.mode)
        interval         == _interval_distance(candidate_root, k.final_root)
        candidate_support_ratio == WindowSupport(k, candidate_root)
        support_delta    == candidate_support_ratio - k.final_support_ratio
        dominant_short   == interval \in _DOMINANT_INTERVAL_STEPS /\ k.is_short_clip
        window_support_threshold ==
            IF dominant_short THEN _WINDOW_SUPPORT_PROMOTION_SHORT
            ELSE _WINDOW_SUPPORT_PROMOTION
        window_support0  == \/ candidate_support_ratio >= window_support_threshold
                            \/ support_delta >= _WINDOW_SUPPORT_DELTA
        candidate_chroma_ratio ==
            IF k.max_chroma > 0
            THEN (1000 * k.chroma[candidate_root + 1]) \div k.max_chroma ELSE 0
        window_support   == IF window_support0 /\ dominant_short
                            THEN candidate_support_ratio >= window_support_threshold
                            ELSE window_support0
        ess_support0     == IF ~window_support
                            THEN _essentia_supports(k.essentia_std_candidate,
                                                    candidate_root, candidate_mode, 350)
                            ELSE FALSE
        ess_support      == IF ~window_support /\ ~ess_support0
                            THEN _essentia_supports(k.essentia_edm_candidate,
                                                    candidate_root, candidate_mode, 450)
                            ELSE ess_support0
        weak_final       == k.final_support_ratio < _FINAL_SUPPORT_FLOOR
        promote0         == window_support \/ ess_support
        promote1         == IF dominant_short
                               /\ (\/ candidate_chroma_ratio < _FIFTH_RECON_CHROMA_RATIO
                                   \/ runner_score + _FIFTH_RUNNER_SCORE_EPS
                                          < k.fallback_best_score)
                            THEN FALSE ELSE promote0
        promote2         == IF k.locked_root /\ candidate_root # k.final_root
                            THEN FALSE ELSE promote1
        promote_runner   == IF ~promote2 /\ weak_final
                               /\ score_gap <= (_RUNNER_SCORE_MARGIN * 6) \div 10
                            THEN TRUE ELSE promote2
        margin0          == IF candidate_support_ratio >= window_support_threshold + 100
                            THEN (_RUNNER_SCORE_MARGIN * 18) \div 10
                            ELSE _RUNNER_SCORE_MARGIN
        margin           == IF ess_support \/ weak_final
                            THEN (margin0 * 12) \div 10 ELSE margin0
    IN  IF /\ interval \in _INTERVAL_OVERRIDE_STEPS
           /\ promote_runner
           /\ (score_gap <= margin \/ ess_support)
        THEN LET moved ==
                   [Contribute(k, "runner_interval",
                               Min2(750, Max2(candidate_support_ratio,
                                              k.fallback_conf) + 150))
                       EXCEPT !.final_root = candidate_root,
                              !.final_mode = candidate_mode,
                              !.key_source = "runner_interval"]
             IN  [moved EXCEPT !.final_support_ratio =
                                   WindowSupport(moved, moved.final_root)]
        ELSE k

ChromaRatio(k, root) ==
    IF k.max_chroma <= 0 THEN 0
    ELSE (1000 * k.chroma[(root % 12) + 1]) \div k.max_chroma

\* the tests a candidate of sorted_candidates[1:6] passes to be an alt_pick
FifthEligible(k, cand) ==
    LET fallback_template_score ==
            TemplateScore(k.chroma, k.fallback_root % 12,
                          _normalize_mode_label(k.fallback_mode))
        fallback_support == WindowSupport(k, k.fallback_root)
        fallback_ess_support ==
            \/ _essentia_supports(k.essentia_std_candidate, k.fallback_root,
                                  k.fallback_mode, 400)
            \/ _essentia_supports(k.essentia_edm_candidate, k.fallback_root,
                                  k.fallback_mode, 450)
    IN  /\ ~(cand.score + _FIFTH_RECON_SCORE_EPS < k.sorted_candidates[1].score)
        /\ ~(/\ fallback_template_score > 0
             /\ (fallback_ess_support \/ fallback_support >= 350)
             /\ cand.score + (_FIFTH_RECON_SCORE_EPS \div 2) < fallback_template_score)
        /\ _interval_distance(cand.root % 12, k.final_root) \in {5, 7}
        /\ ChromaRatio(k, cand.root) >= _FIFTH_RECON_CHROMA_RATIO

\* lines 414-475: fifth-related reconciliation for short clips
FifthReconcileRule(k) ==
    IF ~k.is_short_clip \/ k.sorted_candidates = <<>> THEN k
    ELSE IF k.final_root = k.fallback_root /\ k.window_dominance >= 600 THEN k
    ELSE LET last == Min2(6, Len(k.sorted_candidates))
             picks == {i \in 2..last : FifthEligible(k, k.sorted_candidates[i])}
         IN  IF picks = {} THEN k
             ELSE LET a == CHOOSE i \in picks :
                          /\ \A j \in picks :
                                 ChromaRatio(k, k.sorted_candidates[j].root)
                                     <= ChromaRatio(k, k.sorted_candidates[i].root)
                          /\ \A j \in picks :
                                 j < i =>
                                     ChromaRatio(k, k.sorted_candidates[j].root)
                                         < ChromaRatio(k, k.sorted_candidates[i].root)
                      alt_pick == k.sorted_candidates[a]
                  IN  [Contribute(k, "fifth_reconcile", alt_pick.score)
                          EXCEPT !.final_root = alt_pick.root % 12,
                                 !.final_mode = _normalize_mode_label(alt_pick.mode),
                                 !.key_source = "fifth_reconcile",
                                 !.locked_root = TRUE]

\* lines 476-486: the mode the windows of the final root vote for
WindowModeVotesRule(k) ==
    IF k.window_votes = <<>> THEN k
    ELSE LET b == _mode_vote_breakdown(k.window_votes, k.final_root)
         IN  IF b.total_weight <= 0 THEN k
             ELSE LET major_ratio     == (1000 * b.Major) \div b.total_weight
                      minor_ratio     == (1000 * b.Minor) \div b.total_weight
                      mode_difference == Abs(major_ratio - minor_ratio)
                      dominant_mode   == IF major_ratio >= minor_ratio
                                         THEN "Major" ELSE "Minor"
                  IN  IF /\ mode_difference >= _MODE_VOTE_THRESHOLD
                         /\ dominant_mode # k.final_mode
                      THEN [Contribute(k, "window_mode_votes",
                                       Min2(850, k.final_confidence
                                                 + (mode_difference * 3) \div 10))
                               EXCEPT !.final_mode = dominant_mode,
                                      !.key_source = "window_mode_votes"]
                      ELSE k

\* the mode of the best-scoring template candidate on the peak root
PeakMode(k, peak_root) ==
    LET on_peak == {i \in 1..Len(k.sorted_candidates) :
                       k.sorted_candidates[i].root % 12 = peak_root}
    IN  IF on_peak = {} THEN k.final_mode
        ELSE LET b == CHOOSE i \in on_peak :
                          /\ \A j \in on_peak : k.sorted_candidates[j].score
                                                    <= k.sorted_candidates[i].score
                          /\ \A j \in on_peak :
                                 j < i => k.sorted_candidates[j].score
                                              < k.sorted_candidates[i].score
             IN  _normalize_mode_label(k.sorted_candidates[b].mode)

\* lines 487-557: the chroma peak override
ChromaPeakRule(k) ==
    IF k.key_source = "fifth_reconcile" THEN k
    ELSE LET peak         == _chroma_peak_root(k.chroma)
             peak_root    == peak.root
             final_energy == k.chroma[(k.final_root % 12) + 1]
             energy_gap   == peak.energy - final_energy
             peak_support == WindowSupport(k, peak_root)
             support_gap  == peak_support - k.final_support_ratio
             is_fifth_related == ((peak_root - k.fallback_root) % 12) \in {5, 7}
             should0 == \/ energy_gap >= _CHROMA_PEAK_ENERGY_MARGIN
                        \/ peak_support >= _CHROMA_PEAK_SUPPORT_RATIO
                        \/ support_gap >= _CHROMA_PEAK_SUPPORT_GAP
             should1 == IF k.locked_root /\ peak_root # k.final_root
                        THEN FALSE ELSE should0
             decisive0 == \/ (/\ energy_gap >= _CHROMA_PEAK_ENERGY_MARGIN * 2
                              /\ peak_support >= 200)
                          \/ energy_gap >= 250
             decisive_peak == IF k.window_dominance >= 500
                              THEN decisive0 /\ energy_gap >= 300
                                             /\ peak_support >= 220
                              ELSE decisive0
             should_apply_peak == IF k.is_short_clip /\ is_fifth_related
                                     /\ ~decisive_peak
                                  THEN FALSE ELSE should1
         IN  IF peak_root # k.final_root /\ should_apply_peak
             THEN [Contribute(k, "chroma_peak",
                              Min2(900, Max2(k.final_confidence, peak_support) + 100))
                      EXCEPT !.final_root = peak_root,
                             !.final_mode = PeakMode(k, peak_root),
                             !.key_source = "chroma_peak",
                             !.final_support_ratio = peak_support,
                             !.locked_root = TRUE]
             ELSE k

\* lines 558-608: the preview-tonic safeguard
TonicBiasRule(k) ==
    IF ~k.is_short_clip \/ k.key_source = "chroma_peak" THEN k
    ELSE IF ~(/\ _interval_distance(k.final_root, k.fallback_root) \in {5, 7}
              /\ k.final_root # k.fallback_root)
         THEN k
    ELSE LET fallback_triad == _triad_energy(k.chroma, k.fallback_root, k.fallback_mode)
             final_triad    == _triad_energy(k.chroma, k.final_root, k.final_mode)
             fallback_template_score ==
                 TemplateScore(k.chroma, k.fallback_root % 12,
                               _normalize_mode_label(k.fallback_mode))
             final_template_score ==
                 TemplateScore(k.chroma, k.final_root % 12,
                               _normalize_mode_label(k.final_mode))
             fallback_support == WindowSupport(k, k.fallback_root)
             fallback_ess_support ==
                 \/ _essentia_supports(k.essentia_std_candidate, k.fallback_root,
                                       k.fallback_mode, 350)
                 \/ _essentia_supports(k.essentia_edm_candidate, k.fallback_root,
                                       k.fallback_mode, 450)
             triad_near_tie == \/ final_triad <= 0
                               \/ 100 * fallback_triad >= 95 * final_triad
             template_near_tie ==
                 fallback_template_score + (_FIFTH_RECON_SCORE_EPS \div 2)
                     >= final_template_score
             support0 == \/ fallback_support + 20 >= k.final_support_ratio
                         \/ (fallback_support >= 350 /\ k.final_support_ratio <= 550)
             support_near_tie ==
                 IF ~fallback_ess_support
                    /\ fallback_support < k.final_support_ratio - 10
                 THEN FALSE ELSE support0
         IN  IF /\ triad_near_tie /\ template_near_tie /\ support_near_tie
                /\ (fallback_ess_support \/ k.final_support_ratio < 600)
             THEN [Contribute(k, "tonic_bias",
                              Max2(k.fallback_conf,
                                   Max2(fallback_template_score, fallback_support)))
                      EXCEPT !.final_root = k.fallback_root,
                             !.final_mode = k.fallback_mode,
                             !.key_source = "tonic_bias",
                             !.locked_root = TRUE]
             ELSE k

\* f"{source_label}{suffix}"
SourceTag(source_label, suffix) ==
    CASE source_label = "essentia" /\ suffix = "" -> "essentia"
      [] source_label = "essentia" /\ suffix = "_mode" -> "essentia_mode"
      [] source_label = "essentia" /\ suffix = "_dominant" -> "essentia_dominant"
      [] source_label = "essentia" /\ suffix = "_tonic_override"
             -> "essentia_tonic_override"
      [] source_label = "essentia" /\ suffix = "_mode_rescue"
             -> "essentia_mode_rescue"
      [] source_label = "essentia_edm" /\ suffix = "" -> "essentia_edm"
      [] source_label = "essentia_edm" /\ suffix = "_mode" -> "essentia_edm_mode"
      [] source_label = "essentia_edm" /\ suffix = "_dominant"
             -> "essentia_edm_dominant"
      [] source_label = "essentia_edm" /\ suffix = "_tonic_override"
             -> "essentia_edm_tonic_override"
      [] source_label = "essentia_edm" /\ suffix = "_mode_rescue"
             -> "essentia_edm_mode_rescue"

\* the blend without the locked_root test of lines 169-170
BlendIgnoringLock(k, candidate, source_label, strict_score, mode_score, rescue_score) ==
    IF candidate = <<>> THEN k
    ELSE LET ess_root  == candidate[1].root % 12
             ess_mode  == _normalize_mode_label(candidate[1].mode)
             ess_score == ClampMilli(candidate[1].score)
             differs   == ess_root # k.final_root \/ ess_mode # k.final_mode
         IN  IF ess_score >= strict_score /\ differs
             THEN [Contribute(k, source_label, ess_score)
                      EXCEPT !.final_root = ess_root,
                             !.final_mode = ess_mode,
                             !.key_source = SourceTag(source_label, "")]
             ELSE IF /\ ess_root = k.final_root
                     /\ ess_mode # k.final_mode
                     /\ ess_score >= mode_score
             THEN [Contribute(k, source_label, ess_score)
                      EXCEPT !.final_mode = ess_mode,
                             !.key_source = SourceTag(source_label, "_mode")]
             ELSE IF ess_score >= rescue_score /\ k.final_confidence < 350
             THEN [Contribute(k, source_label, ess_score)
                      EXCEPT !.final_root = ess_root,
                             !.final_mode = ess_mode,
                             !.key_source = SourceTag(source_label, "")]
             ELSE k

_blend_essentia_candidate(k, candidate, source_label, strict_score, mode_score, rescue_score) ==
    IF candidate = <<>> THEN k
    ELSE LET ess_root  == candidate[1].root % 12
             ess_mode  == _normalize_mode_label(candidate[1].mode)
             ess_score == ClampMilli(candidate[1].score)
             differs   == ess_root # k.final_root \/ ess_mode # k.final_mode
         IN  IF k.locked_root /\ ess_root # k.final_root THEN k
             ELSE IF ess_score >= strict_score /\ differs
             THEN [Contribute(k, source_label, ess_score)
                      EXCEPT !.final_root = ess_root,
                             !.final_mode = ess_mode,
                             !.key_source = SourceTag(source_label, "")]
             ELSE IF /\ ess_root = k.final_root
                     /\ ess_mode # k.final_mode
                     /\ ess_score >= mode_score
             THEN [Contribute(k, source_label, ess_score)
                      EXCEPT !.final_mode = ess_mode,
                             !.key_source = SourceTag(source_label, "_mode")]
             ELSE IF ess_score >= rescue_score /\ k.final_confidence < 350
             THEN [Contribute(k, source_label, ess_score)
                      EXCEPT !.final_root = ess_root,
                             !.final_mode = ess_mode,
                             !.key_source = SourceTag(source_label, "")]
             ELSE k

_apply_dominant_interval_override(k, candidate, source_label) ==
    IF candidate = <<>> THEN k
    ELSE LET cand_root  == candidate[1].root % 12
             cand_mode  == _normalize_mode_label(candidate[1].mode)
             cand_score == ClampMilli(candidate[1].score)
             interval   == _interval_distance(k.final_root, cand_root)
         IN  IF cand_score < _DOMINANT_OVERRIDE_SCORE THEN k
             ELSE IF k.locked_root /\ cand_root # k.final_root THEN k
             ELSE IF interval \in _DOMINANT_INTERVAL_STEPS
             THEN LET moved ==
                        [Contribute(k, source_label, cand_score)
                            EXCEPT !.final_root = cand_root,
                                   !.final_mode = cand_mode,
                                   !.key_source = SourceTag(source_label, "_dominant")]
                  IN  [moved EXCEPT !.final_support_ratio =
                                        WindowSupport(moved, moved.final_root)]
             ELSE k

\* the tests of the loop body of _essentia_tonic_override
TonicOverrideApplies(k, candidate) ==
    /\ candidate # <<>>
    /\ _interval_distance(k.final_root, candidate[1].root % 12)
           \in _DOMINANT_INTERVAL_STEPS
    /\ ClampMilli(candidate[1].score) >= _ESSENTIA_TONIC_OVERRIDE_SCORE
    /\ k.final_confidence >= _ESSENTIA_TONIC_OVERRIDE_CONFIDENCE
    /\ ~(/\ k.is_short_clip
         /\ WindowSupport(k, candidate[1].root % 12) + 50 < k.final_support_ratio)

TonicOverride(k, candidate, label) ==
    [Contribute(k, label, ClampMilli(candidate[1].score))
        EXCEPT !.final_root = candidate[1].root % 12,
               !.final_mode = _normalize_mode_label(candidate[1].mode),
               !.key_source = SourceTag(label, "_tonic_override"),
               !.final_support_ratio =
                   Max2(k.final_support_ratio,
                        WindowSupport(k, candidate[1].root % 12)),
               !.locked_root = TRUE]

_essentia_tonic_override(k) ==
    IF k.locked_root THEN k
    ELSE IF TonicOverrideApplies(k, k.essentia_std_candidate)
         THEN TonicOverride(k, k.essentia_std_candidate, "essentia")
    ELSE IF TonicOverrideApplies(k, k.essentia_edm_candidate)
         THEN TonicOverride(k, k.essentia_edm_candidate, "essentia_edm")
    ELSE k

\* lines 626-634: the mode the thirds and sixths of the chroma lean to
ModeBiasRule(k) ==
    LET mode_bias_value == _mode_bias_from_chroma(k.chroma, k.final_root)
        inferred_mode   == IF DoubledModeBias(k.chroma, k.final_root) >= 0
                           THEN "Major" ELSE "Minor"
    IN  IF /\ Abs(DoubledModeBias(k.chroma, k.final_root)) >= 2 * _MODE_BIAS_THRESHOLD
           /\ k.final_confidence < _MODE_BIAS_CONF_LIMIT
           /\ inferred_mode # k.final_mode
        THEN [Contribute(k, "mode_bias",
                         Min2(550, k.final_confidence
                                   + (Abs(mode_bias_value) * 4) \div 10))
                 EXCEPT !.final_mode = inferred_mode,
                        !.key_source = "mode_bias"]
        ELSE k

\* the mode rescue without the key_source assignment of line 277
ModeRescueUntagged(k, candidate, source_label) ==
    IF candidate = <<>> THEN k
    ELSE LET cand_root  == candidate[1].root % 12
             cand_mode  == _normalize_mode_label(candidate[1].mode)
             cand_score == ClampMilli(candidate[1].score)
         IN  IF /\ cand_root = k.final_root
                /\ cand_mode # k.final_mode
                /\ cand_score >= _MODE_RESCUE_SCORE
             THEN [Contribute(k, source_label, cand_score)
                      EXCEPT !.final_mode = cand_mode]
             ELSE k

_mode_rescue_from_candidate(k, candidate, source_label) ==
    IF candidate = <<>> THEN k
    ELSE LET cand_root  == candidate[1].root % 12
             cand_mode  == _normalize_mode_label(candidate[1].mode)
             cand_score == ClampMilli(candidate[1].score)
         IN  IF /\ cand_root = k.final_root
                /\ cand_mode # k.final_mode
                /\ cand_score >= _MODE_RESCUE_SCORE
             THEN [Contribute(k, source_label, cand_score)
                      EXCEPT !.final_mode = cand_mode,
                             !.key_source = SourceTag(source_label, "_mode_rescue")]
             ELSE k

\* the override rules of detect_global_key in the order they run
KeyRuleOrder ==
    <<"window_consensus", "runner_interval", "fifth_reconcile",
      "window_mode_votes", "chroma_peak", "tonic_bias",
      "essentia_blend", "essentia_dominant",
      "essentia_edm_blend", "essentia_edm_dominant",
      "essentia_tonic_override", "mode_bias",
      "essentia_mode_rescue", "essentia_edm_mode_rescue">>

ApplyKeyRule(name, k) ==
    CASE name = "window_consensus"  -> WindowConsensusRule(k)
      [] name = "runner_interval"   -> RunnerIntervalRule(k)
      [] name = "fifth_reconcile"   -> FifthReconcileRule(k)
      [] name = "window_mode_votes" -> WindowModeVotesRule(k)
      [] name = "chroma_peak"       -> ChromaPeakRule(k)
      [] name = "tonic_bias"        -> TonicBiasRule(k)
      [] name = "essentia_blend" ->
             _blend_essentia_candidate(k, k.essentia_std_candidate,
                                       "essentia", 550, 350, 400)
      [] name = "essentia_dominant" ->
             _apply_dominant_interval_override(k, k.essentia_std_candidate, "essentia")
      [] name = "essentia_edm_blend" ->
             _blend_essentia_candidate(k, k.essentia_edm_candidate,
                                       "essentia_edm", _EDM_STRICT_SCORE,
                                       330, _EDM_RELAXED_SCORE)
      [] name = "essentia_edm_dominant" ->
             _apply_dominant_interval_override(k, k.essentia_edm_candidate, "essentia_edm")
      [] name = "essentia_tonic_override" -> _essentia_tonic_override(k)
      [] name = "mode_bias"         -> ModeBiasRule(k)
      [] name = "essentia_mode_rescue" ->
             _mode_rescue_from_candidate(k, k.essentia_std_candidate, "essentia")
      [] name = "essentia_edm_mode_rescue" ->
             _mode_rescue_from_candidate(k, k.essentia_edm_candidate, "essentia_edm")

\* lines 78-87: the result of an empty signal or a non-positive sample rate
DefaultKeyResult ==
    [key_index |-> 0, mode |-> "Major", confidence |-> 0, key_source |-> "none"]

\* lines 637-640
KeyResult(k) ==
    [key_index  |-> k.final_root % 12,
     mode       |-> k.final_mode,
     confidence |-> ClampMilli(k.final_confidence),
     key_source |-> k.key_source]

RECURSIVE RunKeyRules(_, _)
RunKeyRules(k, pc) ==
    IF pc >= Len(KeyRuleOrder) THEN k
    ELSE RunKeyRules(ApplyKeyRule(KeyRuleOrder[pc + 1], k), pc + 1)

detect_global_key(in) ==
    IF in.empty THEN DefaultKeyResult
    ELSE KeyResult(RunKeyRules(KeyFallback(in), 0))

Silence == <<0, 0, 0, 0, 0, 0, 0, 0, 0, 0, 0, 0>>

ChromaInputs ==
    {Silence,
     <<1000, 0, 0, 0, 0, 0, 0, 0, 0, 0, 0, 0>>,
     <<1000, 0, 0, 0, 800, 0, 0, 900, 0, 0, 0, 0>>,
     <<700, 0, 0, 0, 0, 0, 0, 1000, 0, 0, 0, 0>>,
     <<800, 0, 0, 0, 1000, 0, 0, 800, 0, 0, 0, 0>>}

Total(root, mode, weight) == [root |-> root, mode |-> mode, weight |-> weight]

WindowTotalInputs ==
    {<<>>,
     <<Total(0, "Minor", 9), Total(0, "Major", 1)>>,
     <<Total(7, "Major", 6), Total(0, "Major", 4)>>,
     <<Total(0, "Major", 5), Total(0, "Minor", 5)>>,
     <<Total(4, "Minor", 7), Total(0, "Major", 2), Total(9, "Minor", 1)>>}

Estimate(root, mode, score) == <<[root |-> root, mode |-> mode, score |-> score]>>

KeyInputs ==
    {[empty |-> e, is_short_clip |-> s, use_window_consensus |-> ~s,
      chroma |-> c, window_totals |-> IF s THEN <<>> ELSE w,
      essentia_std_candidate |-> a, essentia_edm_candidate |-> b] :
        e \in BOOLEAN, s \in BOOLEAN, c \in ChromaInputs, w \in WindowTotalInputs,
        a \in {<<>>, Estimate(7, "Major", 800), Estimate(0, "Minor", 600),
               Estimate(0, "Minor", 400)},
        b \in {<<>>, Estimate(5, "Major", 900), Estimate(0, "Minor", 400),
               Estimate(0, "Major", 500)}}

InitKey ==
    /\ CalIdle /\ AnaInit /\ ProcIdle /\ ChunkIdle
    /\ fnIn \in KeyInputs
    /\ fnOut = <<>>
    /\ fnStage = "input"

KeyStart ==
    /\ fnStage = "input"
    /\ IF fnIn.empty
       THEN /\ fnOut' = [pc |-> 0, k |-> <<>>, result |-> DefaultKeyResult]
            /\ fnStage' = "returned"
       ELSE /\ fnOut' = [pc |-> 0, k |-> KeyFallback(fnIn), result |-> <<>>]
            /\ fnStage' = "rules"
    /\ UNCHANGED <<fnIn, calVars, anaVars, procVars, chunkVars>>

KeyRule ==
    /\ fnStage = "rules"
    /\ fnOut.pc < Len(KeyRuleOrder)
    /\ fnOut' = [fnOut EXCEPT !.pc = fnOut.pc + 1,
                              !.k = ApplyKeyRule(KeyRuleOrder[fnOut.pc + 1], fnOut.k)]
    /\ UNCHANGED <<fnIn, fnStage, calVars, anaVars, procVars, chunkVars>>

KeyReturn ==
    /\ fnStage = "rules"
    /\ fnOut.pc = Len(KeyRuleOrder)
    /\ fnOut' = [fnOut EXCEPT !.result = KeyResult(fnOut.k)]
    /\ fnStage' = "returned"
    /\ UNCHANGED <<fnIn, calVars, anaVars, procVars, chunkVars>>

NextKey == KeyStart \/ KeyRule \/ KeyReturn

SpecKey == InitKey /\ [][NextKey]_vars

RECURSIVE MaxContribution(_, _)
MaxContribution(contributed, i) ==
    IF i > Len(contributed) THEN 0
    ELSE Max2(contributed[i].value, MaxContribution(contributed, i + 1))

\* C20: in detect_global_key the running confidence never decreases from
\* one override rule to the next, and the confidence returned lies in [0,1],
\* is at least the fallback template confidence, and is the greatest of the
\* fallback confidence and the confidences the fired rules contributed,
\* clamped to [0,1].
C20_ConfidenceNeverDecreases ==
    [][/\ (fnStage = "rules" /\ fnStage' = "rules") =>
              fnOut'.k.final_confidence >= fnOut.k.final_confidence
       /\ fnStage' = "returned" =>
              /\ fnOut'.result.confidence >= 0
              /\ fnOut'.result.confidence <= 1000
       /\ (fnStage = "rules" /\ fnStage' = "returned") =>
              /\ fnOut'.result.confidence >= fnOut.k.fallback_conf
              /\ fnOut'.result.confidence =
                     ClampMilli(Max2(fnOut.k.fallback_conf,
                                     MaxContribution(fnOut.k.contributed, 1)))]_vars

\* a call in which at least two rules fired, one of them contributing less
\* than the confidence returned, and the confidence returned is above the
\* fallback confidence
C20_Witness ==
    /\ fnStage = "returned"
    /\ ~fnIn.empty
    /\ Len(fnOut.k.contributed) >= 2
    /\ fnOut.result.confidence > fnOut.k.fallback_conf
    /\ \E i \in 1..Len(fnOut.k.contributed) :
           fnOut.k.contributed[i].value < fnOut.result.confidence

\* the key_source tags each override rule can write
TagsOfRule(name) ==
    CASE name = "essentia_blend"          -> {"essentia", "essentia_mode"}
      [] name = "essentia_dominant"       -> {"essentia_dominant"}
      [] name = "essentia_edm_blend"      -> {"essentia_edm", "essentia_edm_mode"}
      [] name = "essentia_edm_dominant"   -> {"essentia_edm_dominant"}
      [] name = "essentia_tonic_override" ->
             {"essentia_tonic_override", "essentia_edm_tonic_override"}
      [] OTHER -> {name}

KeyOf(k) == <<k.final_root, k.final_mode>>

AnswerOf(k) == <<k.final_root, k.final_mode, k.final_confidence>>

\* C22 as stated: a rule that changes the running root or mode writes its
\* own tag to key_source, a rule that changes neither leaves key_source
\* alone (so key_source names the last rule that changed root or mode), and
\* a returned key_source of "librosa" goes with the fallback root and mode.
C22_SourceNamesLastKeyChange ==
    [][/\ (fnStage = "rules" /\ fnStage' = "rules") =>
              IF KeyOf(fnOut'.k) # KeyOf(fnOut.k)
              THEN fnOut'.k.key_source \in TagsOfRule(KeyRuleOrder[fnOut.pc + 1])
              ELSE fnOut'.k.key_source = fnOut.k.key_source
       /\ (fnStage = "rules" /\ fnStage' = "returned") =>
              (fnOut'.result.key_source = "librosa" =>
                   /\ fnOut'.result.key_index = fnOut.k.fallback_root
                   /\ fnOut'.result.mode = fnOut.k.fallback_mode)]_vars

\* C22 amended: a rule that changes the running root or mode writes its own
\* tag to key_source; key_source is written only by a rule that changes the
\* root, the mode or the confidence (the external-estimator blend can fire
\* on a candidate equal to the running key and then raises only the
\* confidence); a returned key_source of "librosa" goes with the fallback
\* root, mode and confidence.
C22_SourceNamesLastAnswerChange ==
    [][/\ (fnStage = "rules" /\ fnStage' = "rules") =>
              /\ KeyOf(fnOut'.k) # KeyOf(fnOut.k) =>
                     fnOut'.k.key_source \in TagsOfRule(KeyRuleOrder[fnOut.pc + 1])
              /\ IF AnswerOf(fnOut'.k) # AnswerOf(fnOut.k)
                 THEN fnOut'.k.key_source \in TagsOfRule(KeyRuleOrder[fnOut.pc + 1])
                 ELSE fnOut'.k.key_source = fnOut.k.key_source
       /\ (fnStage = "rules" /\ fnStage' = "returned") =>
              (fnOut'.result.key_source = "librosa" =>
                   /\ fnOut'.result.key_index = fnOut.k.fallback_root
                   /\ fnOut'.result.mode = fnOut.k.fallback_mode
                   /\ fnOut'.result.confidence = fnOut.k.fallback_conf)]_vars

\* fifth reconciliation moved the root and the tonic bias moved it back:
\* the result carries the tag of the later rule
C22_Witness ==
    /\ fnStage = "returned"
    /\ ~fnIn.empty
    /\ Len(fnOut.k.contributed) >= 2
    /\ fnOut.k.contributed[1].rule = "fifth_reconcile"
    /\ fnOut.result.key_source = "tonic_bias"
    /\ fnOut.result.key_index = fnOut.k.fallback_root

\* TRUE when the rule named has contributed in the call so far
HasFired(k, rule) == \E i \in 1..Len(k.contributed) : k.contributed[i].rule = rule

\* C23: the tonic-bias safeguard fires only for a short clip whose running
\* root is a perfect fourth or fifth away from the fallback root; it sets
\* the root to the fallback root, no later rule changes the root again, and
\* the root returned is the fallback root.
C23_TonicBiasRootIsFinal ==
    [][/\ (/\ fnStage = "rules" /\ fnStage' = "rules"
           /\ ~HasFired(fnOut.k, "tonic_bias")
           /\ HasFired(fnOut'.k, "tonic_bias")) =>
              /\ KeyRuleOrder[fnOut.pc + 1] = "tonic_bias"
              /\ fnOut.k.is_short_clip
              /\ _interval_distance(fnOut.k.final_root, fnOut.k.fallback_root) \in {5, 7}
              /\ fnOut'.k.final_root = fnOut.k.fallback_root
       /\ (/\ fnStage = "rules" /\ fnStage' = "rules"
           /\ fnOut'.k.key_source = "tonic_bias"
           /\ fnOut.k.key_source # "tonic_bias") =>
              HasFired(fnOut'.k, "tonic_bias") /\ ~HasFired(fnOut.k, "tonic_bias")
       /\ (/\ fnStage = "rules" /\ fnStage' = "rules"
           /\ HasFired(fnOut.k, "tonic_bias")) =>
              fnOut'.k.final_root = fnOut.k.fallback_root
       /\ (/\ fnStage = "rules" /\ fnStage' = "returned"
           /\ HasFired(fnOut.k, "tonic_bias")) =>
              fnOut'.result.key_index = fnOut.k.fallback_root]_vars

\* the safeguard fired and an external estimate strong enough for the
\* strict blend names another root: the fallback root is returned
C23_Witness ==
    /\ fnStage = "returned"
    /\ ~fnIn.empty
    /\ HasFired(fnOut.k, "tonic_bias")
    /\ fnIn.essentia_std_candidate # <<>>
    /\ fnIn.essentia_std_candidate[1].root # fnOut.k.fallback_root
    /\ fnIn.essentia_std_candidate[1].score >= 550
    /\ fnOut.result.key_index = fnOut.k.fallback_root

\* C26: once locked_root is set, no later rule of the same call changes the
\* root.
C26_LockedRootStays ==
    [][(/\ fnStage = "rules" /\ fnStage' = "rules" /\ fnOut.k.locked_root) =>
           fnOut'.k.final_root = fnOut.k.final_root]_vars

MaxGuardBpm == 600

GuardInputs ==
    {2500 * q + d : q \in 0..(4 * MaxGuardBpm), d \in {-1, 0, 1}} \ {-1}

InitGuard ==
    /\ CalIdle /\ AnaInit /\ ProcIdle /\ ChunkIdle
    /\ fnIn \in GuardInputs
    /\ fnOut = <<>>
    /\ fnStage = "input"

\* pipeline_core.py lines 128-146
GuardrailApply ==
    /\ fnStage = "input"
    /\ fnOut' = [final_bpm |-> fnIn, bpm_value |-> TempoGuardrail(fnIn)]
    /\ fnStage' = "bpm_value"
    /\ UNCHANGED <<fnIn, calVars, anaVars, procVars, chunkVars>>

SpecGuard == InitGuard /\ [][GuardrailApply]_vars

\* C29: for every BPM in [20, 280] the guardrail leaves the BPM unchanged;
\* the alignment score of the doubled (below 60) or halved (above 180) tempo
\* exceeds the original's by at most 0.15; the guardrail changes only a BPM
\* below 20.
C29_GuardrailIdleInAliasRange ==
    fnStage = "bpm_value" =>
        /\ (MIN_ALIAS_BPM <= fnIn /\ fnIn <= MAX_ALIAS_BPM) =>
               /\ fnOut.bpm_value = fnIn
               /\ fnIn < T(60) =>
                      tempo_alignment_score(fnIn * 2)
                          <= tempo_alignment_score(fnIn) + 1500
               /\ fnIn > T(180) =>
                      tempo_alignment_score(fnIn \div 2)
                          <= tempo_alignment_score(fnIn) + 1500
        /\ fnOut.bpm_value # fnIn => fnIn < MIN_ALIAS_BPM

\* an extreme tempo inside [20, 280] whose doubled tempo aligns better, but
\* by less than the margin
C29_Witness ==
    /\ fnStage = "bpm_value"
    /\ MIN_ALIAS_BPM <= fnIn /\ fnIn < T(60)
    /\ tempo_alignment_score(fnIn * 2) > tempo_alignment_score(fnIn)
    /\ fnOut.bpm_value = fnIn

\* a tempo below 20 BPM that the guardrail doubles
C29_WitnessFires ==
    /\ fnStage = "bpm_value"
    /\ fnIn < MIN_ALIAS_BPM
    /\ fnOut.bpm_value = 2 * fnIn

C30_WitnessTwoPasses ==
    /\ fnStage = "guarded"
    /\ fnOut.selected
    /\ fnOut.best_alias_bpm # fnOut.passes[1]
    /\ fnOut.passes[1] # fnOut.passes[5]

(***************************************************************************)
(* The shared spectral transform and the harmonic/percussive split:        *)
(* build_spectral_context followed by harmonic_percussive_components on    *)
(* one buffer.  The library calls (librosa.stft, librosa.decompose.hpss    *)
(* with librosa.istft, librosa.effects.hpss) either return or raise; which *)
(* one happens is an input of the step.  fnOut.attempts lists the          *)
(* transform sizes handed to librosa.stft.                                 *)
(***************************************************************************)
ANALYSIS_FFT_SIZE == 1024

RECURSIVE FloorLog2(_)
FloorLog2(n) == IF n < 2 THEN 0 ELSE 1 + FloorLog2(n \div 2)

\* pipeline_context.py lines 24-31: the transform size for a buffer shorter
\* than n_fft, chosen before the transform is tried
effective_n_fft(size, n_fft) ==
    IF size < n_fft
    THEN LET reduced == Max2(256, 2 ^ FloorLog2(size))
         IN  IF reduced >= size THEN 256 ELSE reduced
    ELSE n_fft

SpectralInputs ==
    {[size |-> n, sr |-> r] :
        n \in {0, 100, 256, 300, 600, 1023, 1024, 2000, 120000},
        r \in {0, ANALYSIS_SAMPLE_RATE, 44100}}

SpectralRunning ==
    [status |-> "running", attempts |-> <<>>, stft_raised |-> FALSE,
     stft |-> FALSE, n_fft |-> 0, split |-> "none"]

InitSpectral ==
    /\ CalIdle /\ AnaInit /\ ProcIdle /\ ChunkIdle
    /\ fnIn \in SpectralInputs
    /\ fnOut = SpectralRunning
    /\ fnStage = "input"

\* build_spectral_context, lines 14-56
SpectralBuild ==
    /\ fnStage = "input"
    /\ IF fnIn.size = 0 \/ fnIn.sr <= 0
       THEN fnOut' = fnOut
       ELSE \E stft_ok \in BOOLEAN :
               LET n == effective_n_fft(fnIn.size, ANALYSIS_FFT_SIZE)
               IN  fnOut' = [fnOut EXCEPT
                       !.attempts = Append(fnOut.attempts, n),
                       !.stft_raised = ~stft_ok,
                       !.stft = stft_ok,
                       !.n_fft = IF stft_ok THEN n ELSE 0]
    /\ fnStage' = "context"
    /\ UNCHANGED <<fnIn, calVars, anaVars, procVars, chunkVars>>

\* harmonic_percussive_components, lines 104-142
SpectralSplit ==
    /\ fnStage = "context"
    /\ \E decompose_ok \in BOOLEAN, effects_ok \in BOOLEAN :
          fnOut' = IF fnOut.stft /\ decompose_ok
                   THEN [fnOut EXCEPT !.status = "returned", !.split = "stft"]
                   ELSE IF effects_ok
                   THEN [fnOut EXCEPT !.status = "returned",
                                      !.split = "time_domain"]
                   ELSE [fnOut EXCEPT !.status = "raised",
                                      !.split = "time_domain"]
    /\ fnStage' = "split"
    /\ UNCHANGED <<fnIn, calVars, anaVars, procVars, chunkVars>>

NextSpectral == SpectralBuild \/ SpectralSplit

SpecSpectral == InitSpectral /\ [][NextSpectral]_vars

\* C25: when the spectral transform raises on a buffer it is tried a second
\* time with a smaller transform size, and the time-domain split is used
\* only after that second attempt has failed too.
C25_ReducedSizeRetry ==
    (fnStage \in {"context", "split"} /\ fnOut.stft_raised) =>
        /\ Len(fnOut.attempts) = 2
        /\ fnOut.attempts[2] < fnOut.attempts[1]

(***************************************************************************)
(* The three duration-gated calibration steps on one raw result.  The      *)
(* result either carries signal_duration (seconds) or lacks the field;     *)
(* each step reads it with result.get("signal_duration", 0.0), so a        *)
(* missing field reads as 0 in all three.  Each step runs with a rule set  *)
(* that is loaded (generation 1 of the rule files).                        *)
(***************************************************************************)
GateInputs ==
    {[present |-> TRUE, duration |-> d, bpm |-> Bpm(b), energy |-> e] :
        d \in {0, 1, 30, 44, 45, 46, 200}, b \in {60, 72, 100, 120, 144, 150, 170},
        e \in {30, 80}}
    \cup {[present |-> FALSE, duration |-> 0, bpm |-> Bpm(b), energy |-> e] :
              b \in {60, 72, 100, 120, 144, 150, 170}, e \in {30, 80}}

\* result.get("signal_duration", 0.0)
GateResult(in) ==
    [RawResult(in.bpm, IF in.present THEN in.duration ELSE 0)
        EXCEPT !.energy = in.energy]

InitGate ==
    /\ CalIdle /\ AnaInit /\ ProcIdle /\ ChunkIdle
    /\ fnIn \in GateInputs
    /\ fnOut = <<>>
    /\ fnStage = "input"

GateApply ==
    /\ fnStage = "input"
    /\ LET r == GateResult(fnIn)
       IN  fnOut' = [scalers |-> apply_calibration_layer(ScalersOf(1), r),
                     key     |-> apply_key_calibration(KeyRulesOf(1), r),
                     bpm     |-> apply_bpm_calibration(BpmRulesOf(1), r),
                     short   |-> [scalers |-> IsShortClipScaler(r),
                                  key     |-> IsShortClipKey(r),
                                  bpm     |-> IsShortClipBpm(r)]]
    /\ fnStage' = "gated"
    /\ UNCHANGED <<fnIn, calVars, anaVars, procVars, chunkVars>>

SpecGate == InitGate /\ [][GateApply]_vars

\* C28: the BPM scaler, the key confusion remap and the BPM rule engine
\* agree on whether a result is a short clip, for every signal_duration
\* including 0 and a missing field.
C28_ShortClipTestsAgree ==
    fnStage = "gated" =>
        /\ fnOut.short.scalers = fnOut.short.key
        /\ fnOut.short.key = fnOut.short.bpm

(***************************************************************************)
(* One track through perform_audio_analysis and attach_chunk_analysis with *)
(* the calibration hooks configured and every rule file loaded             *)
(* (generation 1).  Times are in milliseconds (a sample rate of 1000 Hz);  *)
(* signal_duration is handed to the calibration steps in whole seconds.    *)
(* Each window's raw BPM is an input of the step that analyses it; a       *)
(* window may also hit the 30 s timeout, which ends the loop.  At most     *)
(* MaxWindows windows are followed.                                        *)
(***************************************************************************)
CHUNK_ANALYSIS_SECONDS == 15

CHUNK_OVERLAP_SECONDS == 5

MIN_CHUNK_DURATION_SECONDS == 5

CHUNK_BEAT_TARGET == 8

\* pipeline_chunk_utils.py lines 11-19, CHUNK_ANALYSIS_ENABLED at its default
should_run_chunk_analysis(total_ms) ==
    /\ total_ms > 0
    /\ total_ms >= Max2(1000 * (CHUNK_ANALYSIS_SECONDS + MIN_CHUNK_DURATION_SECONDS),
                        1500 * CHUNK_ANALYSIS_SECONDS)

\* the window length made four times the analysis length
ChunkParametersLong(bpm_hint) ==
    [chunk |-> 4000 * CHUNK_ANALYSIS_SECONDS,
     hop   |-> 4000 * CHUNK_ANALYSIS_SECONDS - 1000 * CHUNK_OVERLAP_SECONDS,
     min_chunk |-> 1000 * MIN_CHUNK_DURATION_SECONDS]

\* pipeline_chunks.py lines 32-54; bpm_hint in quarter BPM, 0 for None
_chunk_parameters(bpm_hint) ==
    LET beat_window == (CHUNK_BEAT_TARGET * 60 * 1000 * 4) \div bpm_hint
        chunk == IF bpm_hint > 0
                 THEN Max2(1000 * MIN_CHUNK_DURATION_SECONDS,
                           Min2(1000 * CHUNK_ANALYSIS_SECONDS, beat_window))
                 ELSE Max2(1000 * CHUNK_ANALYSIS_SECONDS,
                           1000 * MIN_CHUNK_DURATION_SECONDS)
        overlap == Max2(0, Min2(1000 * CHUNK_OVERLAP_SECONDS, (9 * chunk) \div 10))
        hop == IF 20 * (chunk - overlap) <= chunk THEN chunk \div 2
               ELSE chunk - overlap
    IN  [chunk |-> Max2(chunk, 1), hop |-> Max2(hop, 1),
         min_chunk |-> Max2(1000 * MIN_CHUNK_DURATION_SECONDS, 1)]

AllLoaded == [t \in Tags |-> 1]

WinTrackInputs ==
    {[raw |-> [RawResult(Bpm(b), d) EXCEPT !.energy = e], total |-> 1000 * d] :
        b \in {0, 30, 72, 120}, d \in {20, 23, 60, 200}, e \in {30, 80}}

WinBpmInputs == {Bpm(72), Bpm(120), Bpm(144)}

\* the fields of a result that merge_chunk_consensus reads and writes
MergeView(r) ==
    [bpm |-> r.bpm, key |-> r.key, key_confidence |-> r.key_confidence,
     key_modulating |-> FALSE, key_dispersion_semitones |-> -1]

\* the summary compute_chunk_summaries keeps of one window's result
SummaryOf(chunk_result) ==
    [bpm |-> chunk_result.bpm, key_index |-> chunk_result.key.root,
     key_mode |-> chunk_result.key.mode,
     key_confidence |-> chunk_result.key_confidence,
     energy |-> chunk_result.energy,
     energy_weight |-> Max2(5, Min2(150, chunk_result.energy))]

RECURSIVE SummariesOf(_)
SummariesOf(windows) ==
    IF windows = <<>> THEN <<>>
    ELSE <<SummaryOf(Head(windows).result)>> \o SummariesOf(Tail(windows))

InitWin ==
    /\ CalIdle /\ AnaInit /\ ProcIdle /\ ChunkIdle
    /\ fnIn \in WinTrackInputs
    /\ fnOut = <<>>
    /\ fnStage = "input"

\* perform_audio_analysis on the whole track, hooks.apply_all included
WinTrack ==
    /\ fnStage = "input"
    /\ fnOut' = [track |-> apply_all(AllLoaded, fnIn.raw), windows |-> <<>>,
                 start |-> 0, truncated |-> FALSE, merged |-> <<>>]
    /\ fnStage' = IF should_run_chunk_analysis(fnIn.total) THEN "loop"
                  ELSE "summaries"
    /\ UNCHANGED <<fnIn, calVars, anaVars, procVars, chunkVars>>

\* the samples of the window that starts at fnOut.start
WinSamples ==
    Min2(fnOut.start + _chunk_parameters(fnOut.track.bpm).chunk, fnIn.total)
        - fnOut.start

\* one pass of the loop of compute_chunk_summaries that appends a summary
WinWindow ==
    /\ fnStage = "loop"
    /\ fnOut.start < fnIn.total
    /\ WinSamples >= _chunk_parameters(fnOut.track.bpm).min_chunk
    /\ Len(fnOut.windows) < Min2(MAX_CHUNK_BATCHES, MaxWindows)
    /\ \E b \in WinBpmInputs, e \in {30, 80} :
          LET raw == [RawResult(b, WinSamples \div 1000) EXCEPT !.energy = e]
          IN  fnOut' = [fnOut EXCEPT
                  !.windows = Append(fnOut.windows,
                                     [samples |-> WinSamples, raw |-> raw,
                                      result |-> apply_all(AllLoaded, raw)]),
                  !.start = fnOut.start + _chunk_parameters(fnOut.track.bpm).hop]
    /\ UNCHANGED <<fnIn, fnStage, calVars, anaVars, procVars, chunkVars>>

\* the loop ends: range exhausted, tail shorter than the minimum, the batch
\* cap, or a window over the timeout
WinLoopEnd ==
    /\ fnStage = "loop"
    /\ \E timeout \in BOOLEAN :
          /\ \/ timeout
             \/ fnOut.start >= fnIn.total
             \/ WinSamples < _chunk_parameters(fnOut.track.bpm).min_chunk
             \/ Len(fnOut.windows) >= Min2(MAX_CHUNK_BATCHES, MaxWindows)
          /\ fnOut' = [fnOut EXCEPT !.truncated =
                           /\ fnOut.start < fnIn.total
                           /\ WinSamples >= _chunk_parameters(fnOut.track.bpm).min_chunk]
    /\ fnStage' = "summaries"
    /\ UNCHANGED <<fnIn, calVars, anaVars, procVars, chunkVars>>

\* attach_chunk_analysis after compute_chunk_summaries returned
WinMerge ==
    /\ fnStage = "summaries"
    /\ fnOut' = [fnOut EXCEPT !.merged =
                     attach_chunk_analysis(MergeView(fnOut.track),
                                           SummariesOf(fnOut.windows))]
    /\ fnStage' = "merged"
    /\ UNCHANGED <<fnIn, calVars, anaVars, procVars, chunkVars>>

NextWin == WinTrack \/ WinWindow \/ WinLoopEnd \/ WinMerge

SpecWin == InitWin /\ [][NextWin]_vars

\* C27: every window is at most 15 s long, so the BPM scaler, the key
\* confusion remap and the BPM rule engine treat its result as a short clip
\* and leave it alone (of the hook chain only the model step, which has no
\* duration gate, acts on a window); and when at least one window was
\* analysed the merged BPM is the consensus (median) of the window BPMs,
\* whatever the calibrated whole-track BPM was.
C27_WindowsUncalibratedTrackOverwritten ==
    fnStage \in {"loop", "summaries", "merged"} =>
        /\ \A i \in 1..Len(fnOut.windows) :
               LET w == fnOut.windows[i]
               IN  /\ w.samples <= 1000 * CHUNK_ANALYSIS_SECONDS
                   /\ w.raw.signal_duration < SHORT_CLIP_THRESHOLD
                   /\ IsShortClipScaler(w.raw)
                   /\ IsShortClipKey(w.raw)
                   /\ IsShortClipBpm(w.raw)
                   /\ apply_calibration_layer(ScalersOf(1), w.raw).bpm = w.raw.bpm
                   /\ apply_key_calibration(KeyRulesOf(1), w.raw) = w.raw
                   /\ apply_bpm_calibration(BpmRulesOf(1), w.raw) = w.raw
                   /\ w.result = apply_calibration_models(ModelsOf(1), w.raw)
                   /\ w.result.key = w.raw.key
        /\ (fnStage = "merged" /\ fnOut.windows # <<>>) =>
               fnOut.merged.bpm =
                   np_median([i \in 1..Len(fnOut.windows) |->
                                 fnOut.windows[i].result.bpm])

\* a long track whose BPM the whole-track calibration changed, with two
\* windows or more: the merged BPM is the windows' and not the corrected one
C27_Witness ==
    /\ fnStage = "merged"
    /\ fnIn.total >= 1000 * SHORT_CLIP_THRESHOLD
    /\ fnOut.track.bpm # fnIn.raw.bpm
    /\ Len(fnOut.windows) >= 2
    /\ fnOut.merged.bpm # fnOut.track.bpm

====
